---- MODULE Spec2Model ----
(***************************************************************************)
(* A model of the signal dispatcher of the port library                    *)
(* (src/port/unix/omrsignal.c).                                            *)
(*                                                                         *)
(* Flag words (uint32_t bit masks) are modelled as sets of bit names:      *)
(* a | b is \cup, a & b is \cap, a & ~b is \, and 0 is {}.                 *)
(***************************************************************************)
EXTENDS Integers, Sequences, FiniteSets, TLC

VARIABLES
    \* ---- OS level and process globals
    osAction,                      \* sigaction disposition per unix signal
    oldActions,                    \* oldActions[sig] = [action, restore]
    syncSignalsWithHandlers,
    asyncSignalsWithHandlers,
    syncSignalsWithMainHandlers,
    asyncSignalsWithMainHandlers,
    signalOptionsGlobal,
    \* ---- async handler list and reporter
    asyncHandlerList,              \* sequence of records, head first
    asyncThreadCount,
    signalCounts,
    wakeUpASyncReporter,           \* semaphore value / pending condvar wakeup
    shutDownASynchReporter,
    J9ZOS390,                      \* build variant: TRUE = condvar, FALSE = semaphore
    reporter,                      \* the reporter thread's position and locals
    raisers,                       \* per signal: main async handlers between count and post
    \* ---- per-thread synchronous protection state (one thread)
    frames,                        \* live OMRSignalHandlerRecords, outermost first
    tlsKey,                        \* top of the handler stack (index in frames, 0 = NULL)
    tlsKeyCurrentSignal,           \* current-signal cell ({} = NULL)
    ctl,                           \* control stack of the thread
    procState,                     \* "running" or "aborted"
    \* ---- attach counting and the global tools of the dispatcher
    attachedPortLibraries,
    signalTools,                   \* the tools initializeSignalTools has set up
    sig_shutdown,                  \* portLibrary->sig_shutdown of each port library
    osOriginal,                    \* observation: the dispositions the process started with
    optionsCaller,                 \* a thread inside omrsig_set_options: its position and argument
    shutdownCaller,                \* a thread inside sig_full_shutdown: its position and port library
    registrant,                    \* a thread inside a registration call: its position and arguments
    \* ---- observation of the calls made (not program state)
    lastCall,
    mark,
    tally,
    \* ---- the optimizer orchestrator (one compilation, one thread)
    optimizers,                    \* the TR::Optimizer objects of the compilation, outermost first
    compilation,                   \* the fields of TR::Compilation the orchestrator reads and writes
    optStack,                      \* the active calls of optimize and performOptimization
    optResult,                     \* "idle", "running", "returned" or the failure raised
    optStep                        \* observation: what the last step of the orchestrator did

vars == <<osAction, oldActions, syncSignalsWithHandlers, asyncSignalsWithHandlers,
          syncSignalsWithMainHandlers, asyncSignalsWithMainHandlers,
          signalOptionsGlobal, asyncHandlerList, asyncThreadCount, signalCounts,
          wakeUpASyncReporter, shutDownASynchReporter, J9ZOS390, reporter, raisers,
          frames, tlsKey, tlsKeyCurrentSignal, ctl, procState,
          attachedPortLibraries, signalTools, sig_shutdown, osOriginal, optionsCaller,
          shutdownCaller, registrant, lastCall, mark, tally,
          optimizers, compilation, optStack, optResult, optStep>>

osVars == <<osAction, oldActions, syncSignalsWithHandlers, asyncSignalsWithHandlers,
            syncSignalsWithMainHandlers, asyncSignalsWithMainHandlers>>
reporterVars == <<asyncThreadCount, signalCounts, wakeUpASyncReporter,
                  shutDownASynchReporter, J9ZOS390, reporter, raisers>>
syncVars == <<frames, tlsKey, tlsKeyCurrentSignal, ctl, procState>>
\* no thread is inside a registration call
NoRegistrant == [pc |-> "idle", thread |-> "none", op |-> "none", who |-> <<>>, flags |-> {}]

lifeVars == <<attachedPortLibraries, signalTools, sig_shutdown, osOriginal, optionsCaller, shutdownCaller,
             registrant>>
optVars == <<optimizers, compilation, optStack, optResult, optStep>>
dispatcherVars == <<osVars, signalOptionsGlobal, asyncHandlerList, reporterVars, syncVars, lifeVars, lastCall, mark, tally>>

(***************************************************************************)
(* Constants of the port library interface.                                *)
(***************************************************************************)
NULL == 0
OMRPORT_SIG_ERROR == -1
OMRPORT_SIG_EXCEPTION_OCCURRED == 1

OMRPORT_SIG_FLAG_MAY_RETURN == {"MAY_RETURN"}
OMRPORT_SIG_FLAG_MAY_CONTINUE_EXECUTION == {"MAY_CONTINUE_EXECUTION"}
OMRPORT_SIG_FLAG_IS_ASYNC == {"IS_ASYNC"}
OMRPORT_SIG_FLAG_IS_SYNC == {"IS_SYNC"}
OMRPORT_SIG_FLAG_CONTROL_BITS_MASK ==
    {"MAY_RETURN", "MAY_CONTINUE_EXECUTION", "IS_ASYNC", "IS_SYNC"}

OMRPORT_SIG_FLAG_SIGSEGV == {"IS_SYNC", "SEGV"}
OMRPORT_SIG_FLAG_SIGFPE == {"IS_SYNC", "FPE"}
OMRPORT_SIG_FLAG_SIGFPE_DIV_BY_ZERO == OMRPORT_SIG_FLAG_SIGFPE \cup {"DIV_BY_ZERO"}
OMRPORT_SIG_FLAG_SIGFPE_INT_DIV_BY_ZERO == OMRPORT_SIG_FLAG_SIGFPE \cup {"INT_DIV_BY_ZERO"}
OMRPORT_SIG_FLAG_SIGFPE_INT_OVERFLOW == OMRPORT_SIG_FLAG_SIGFPE \cup {"INT_OVERFLOW"}
OMRPORT_SIG_FLAG_SIGTERM == {"IS_ASYNC", "TERM"}
OMRPORT_SIG_FLAG_SIGXFSZ == {"IS_ASYNC", "XFSZ"}
OMRPORT_SIG_FLAG_SIGHUP == {"IS_ASYNC", "HUP"}
OMRPORT_SIG_FLAG_SIGALLSYNC == OMRPORT_SIG_FLAG_SIGSEGV \cup OMRPORT_SIG_FLAG_SIGFPE
OMRPORT_SIG_FLAG_SIGALLASYNC ==
    OMRPORT_SIG_FLAG_SIGTERM \cup OMRPORT_SIG_FLAG_SIGXFSZ \cup OMRPORT_SIG_FLAG_SIGHUP

OMRPORT_SIG_OPTIONS_REDUCED_SIGNALS_SYNCHRONOUS == {"REDUCED_SIGNALS_SYNCHRONOUS"}
OMRPORT_SIG_OPTIONS_REDUCED_SIGNALS_ASYNCHRONOUS == {"REDUCED_SIGNALS_ASYNCHRONOUS"}
OMRPORT_SIG_OPTIONS_SIGXFSZ == {"OPTIONS_SIGXFSZ"}
OMRPORT_SIG_OPTIONS_OMRSIG_NO_CHAIN == {"OMRSIG_NO_CHAIN"}

\* unix signal numbers of the modelled rows of signalMap
SIGHUP == 1
SIGFPE == 8
SIGSEGV == 11
SIGTERM == 15
SIGXFSZ == 25

\* the signal bits, rightmost (lowest) bit first
SignalBits == <<"SEGV", "FPE", "TERM", "XFSZ", "HUP">>

OMR_ARE_ALL_BITS_SET(value, bits) == bits \subseteq value
OMR_ARE_ANY_BITS_SET(value, bits) == (value \cap bits) # {}
OMR_ARE_NO_BITS_SET(value, bits) == (value \cap bits) = {}
OMR_IS_ONLY_ONE_BIT_SET(value) == Cardinality(value) = 1

signalMap ==
    << [portLibSignalNo |-> OMRPORT_SIG_FLAG_SIGSEGV, unixSignalNo |-> SIGSEGV],
       [portLibSignalNo |-> OMRPORT_SIG_FLAG_SIGFPE,  unixSignalNo |-> SIGFPE],
       [portLibSignalNo |-> OMRPORT_SIG_FLAG_SIGTERM, unixSignalNo |-> SIGTERM],
       [portLibSignalNo |-> OMRPORT_SIG_FLAG_SIGXFSZ, unixSignalNo |-> SIGXFSZ],
       [portLibSignalNo |-> OMRPORT_SIG_FLAG_SIGHUP,  unixSignalNo |-> SIGHUP] >>

UnixSignals == {signalMap[i].unixSignalNo : i \in DOMAIN signalMap}

\* sigInfo is "NULL" (no siginfo_t) or the si_code of the signal
SigInfos == {"NULL", "FPE_FLTDIV", "FPE_INTDIV", "FPE_INTOVF", "OTHER"}

mapOSSignalToPortLib(signalNo, sigInfo) ==
    IF signalNo = SIGFPE /\ sigInfo # "NULL"
    THEN CASE sigInfo = "FPE_FLTDIV" -> OMRPORT_SIG_FLAG_SIGFPE_DIV_BY_ZERO
           [] sigInfo = "FPE_INTDIV" -> OMRPORT_SIG_FLAG_SIGFPE_INT_DIV_BY_ZERO
           [] sigInfo = "FPE_INTOVF" -> OMRPORT_SIG_FLAG_SIGFPE_INT_OVERFLOW
           [] OTHER -> OMRPORT_SIG_FLAG_SIGFPE
    ELSE IF \E i \in DOMAIN signalMap : signalMap[i].unixSignalNo = signalNo
         THEN LET i == CHOOSE j \in DOMAIN signalMap :
                          /\ signalMap[j].unixSignalNo = signalNo
                          /\ \A k \in 1..(j - 1) : signalMap[k].unixSignalNo # signalNo
              IN signalMap[i].portLibSignalNo
         ELSE {}

mapPortLibSignalToOSSignal(portLibSignal) ==
    IF \E i \in DOMAIN signalMap : signalMap[i].portLibSignalNo = portLibSignal
    THEN LET i == CHOOSE j \in DOMAIN signalMap :
                     /\ signalMap[j].portLibSignalNo = portLibSignal
                     /\ \A k \in 1..(j - 1) : signalMap[k].portLibSignalNo # portLibSignal
         IN signalMap[i].unixSignalNo
    ELSE OMRPORT_SIG_ERROR

checkForAmbiguousSignalFlags_BothOnly(flags) ==
    /\ flags # {}
    /\ OMR_ARE_ALL_BITS_SET(flags, OMRPORT_SIG_FLAG_IS_SYNC)
    /\ OMR_ARE_ALL_BITS_SET(flags, OMRPORT_SIG_FLAG_IS_ASYNC)

checkForAmbiguousSignalFlags(flags) ==
    /\ flags # {}
    /\ \/ /\ OMR_ARE_ALL_BITS_SET(flags, OMRPORT_SIG_FLAG_IS_SYNC)
          /\ OMR_ARE_ALL_BITS_SET(flags, OMRPORT_SIG_FLAG_IS_ASYNC)
       \/ /\ OMR_ARE_NO_BITS_SET(flags, OMRPORT_SIG_FLAG_IS_SYNC)
          /\ OMR_ARE_NO_BITS_SET(flags, OMRPORT_SIG_FLAG_IS_ASYNC)

(***************************************************************************)
(* Installation of OS handlers.  The OS-level state is passed around as a  *)
(* record os; osr[bit] tells what the OS answers to the installation for   *)
(* that signal bit: [sigaction |-> ok?, unblock |-> ok?].                  *)
(***************************************************************************)
OSState ==
    [action |-> osAction, old |-> oldActions,
     swh |-> syncSignalsWithHandlers, awh |-> asyncSignalsWithHandlers,
     swmh |-> syncSignalsWithMainHandlers, awmh |-> asyncSignalsWithMainHandlers]

SetOSState(os) ==
    /\ osAction' = os.action
    /\ oldActions' = os.old
    /\ syncSignalsWithHandlers' = os.swh
    /\ asyncSignalsWithHandlers' = os.awh
    /\ syncSignalsWithMainHandlers' = os.swmh
    /\ asyncSignalsWithMainHandlers' = os.awmh

OSResultOk == [sigaction |-> TRUE, unblock |-> TRUE]
AllOk == [b \in {SignalBits[i] : i \in DOMAIN SignalBits} |-> OSResultOk]

setBitMaskSignalsWithHandlers(os, flags) ==
    IF OMR_ARE_ALL_BITS_SET(flags, OMRPORT_SIG_FLAG_IS_SYNC)
    THEN [os EXCEPT !.swh = @ \cup flags]
    ELSE [os EXCEPT !.awh = @ \cup flags]

unsetBitMaskSignalsWithHandlers(os, flags) ==
    IF OMR_ARE_ALL_BITS_SET(flags, OMRPORT_SIG_FLAG_IS_SYNC)
    THEN [os EXCEPT !.swh = @ \ (flags \ OMRPORT_SIG_FLAG_CONTROL_BITS_MASK)]
    ELSE [os EXCEPT !.awh = @ \ (flags \ OMRPORT_SIG_FLAG_CONTROL_BITS_MASK)]

setBitMaskSignalsWithMainHandlers(os, flags) ==
    IF OMR_ARE_ALL_BITS_SET(flags, OMRPORT_SIG_FLAG_IS_SYNC)
    THEN [os EXCEPT !.swmh = @ \cup flags]
    ELSE [os EXCEPT !.awmh = @ \cup flags]

unsetBitMaskSignalsWithMainHandlers_Keeps(os, flags) == os

unsetBitMaskSignalsWithMainHandlers(os, flags) ==
    IF OMR_ARE_ALL_BITS_SET(flags, OMRPORT_SIG_FLAG_IS_SYNC)
    THEN [os EXCEPT !.swmh = @ \ (flags \ OMRPORT_SIG_FLAG_CONTROL_BITS_MASK)]
    ELSE [os EXCEPT !.awmh = @ \ (flags \ OMRPORT_SIG_FLAG_CONTROL_BITS_MASK)]

IsMainHandler_OnlySync(handler) ==
    handler = "mainSynchSignalHandler"

IsMainHandler(handler) ==
    handler \in {"mainSynchSignalHandler", "mainASynchSignalHandler"}

\* result: [os, rc, old] where old is what *oldOSHandler is set to ("unset" if not written)
registerSignalHandlerWithOS(os, portLibrarySignalNo, handler, res) ==
    LET unixSignalNo == mapPortLibSignalToOSSignal(portLibrarySignalNo) IN
    IF unixSignalNo = OMRPORT_SIG_ERROR
    THEN [os |-> os, rc |-> OMRPORT_SIG_ERROR, old |-> "unset"]
    ELSE IF os.old[unixSignalNo].restore = 0 /\ ~res.sigaction
    THEN \* oldActions[].action was memset before the failed sigaction
         [os |-> [os EXCEPT !.old[unixSignalNo].action = "zeroed"],
          rc |-> OMRPORT_SIG_ERROR, old |-> "unset"]
    ELSE IF ~res.sigaction
    THEN [os |-> os, rc |-> OMRPORT_SIG_ERROR, old |-> "unset"]
    ELSE LET replaced == os.action[unixSignalNo]
             os1 == IF os.old[unixSignalNo].restore = 0
                    THEN [os EXCEPT !.action[unixSignalNo] = handler,
                                    !.old[unixSignalNo] = [action |-> replaced, restore |-> 1]]
                    ELSE [os EXCEPT !.action[unixSignalNo] = handler]
             os2 == setBitMaskSignalsWithHandlers(os1, portLibrarySignalNo)
             os3 == IF IsMainHandler(handler)
                    THEN setBitMaskSignalsWithMainHandlers(os2, portLibrarySignalNo)
                    ELSE unsetBitMaskSignalsWithMainHandlers(os2, portLibrarySignalNo)
         IN [os |-> os3,
             rc |-> IF res.unblock THEN 0 ELSE OMRPORT_SIG_ERROR,
             old |-> replaced]

\* the while loop of registerMainHandlers over the bits of signalFlags, from
\* the rightmost bit (position i of SignalBits) on; acc = [os, rc, old]
RECURSIVE registerMainHandlersLoop(_, _, _, _, _, _, _)
registerMainHandlersLoop(acc, i, signalFlags, signalType, local, handler, osr) ==
    IF i > Len(SignalBits) \/ acc.rc # 0
    THEN acc
    ELSE LET bit == SignalBits[i]
             portSignalFlagWithType == {bit} \cup signalType
             \* the body of the loop for this bit
             after ==
                 IF bit \notin signalFlags
                 THEN {acc}
                 ELSE IF ~OMR_ARE_ALL_BITS_SET(local, portSignalFlagWithType)
                 THEN {[os |-> r.os, rc |-> r.rc,
                        old |-> IF r.old = "unset" THEN acc.old ELSE r.old] :
                       r \in {registerSignalHandlerWithOS(acc.os, portSignalFlagWithType,
                                                          handler, osr[bit])}}
                 ELSE {[acc EXCEPT !.old = handler]}
         IN CHOOSE out \in {registerMainHandlersLoop(a, i + 1, signalFlags, signalType,
                                                     local, handler, osr) : a \in after} : TRUE

registerMainHandlers(os, flags, allowedSubsetOfFlags, osr) ==
    LET signalFlags == (flags \cap allowedSubsetOfFlags) \ OMRPORT_SIG_FLAG_CONTROL_BITS_MASK
        isAsync == OMR_ARE_ALL_BITS_SET(flags, OMRPORT_SIG_FLAG_IS_ASYNC)
        signalType == IF isAsync THEN OMRPORT_SIG_FLAG_IS_ASYNC ELSE OMRPORT_SIG_FLAG_IS_SYNC
        local == IF isAsync THEN os.awmh ELSE os.swmh
        start == [os |-> os, rc |-> 0, old |-> "unset"]
    IN
    IF allowedSubsetOfFlags = OMRPORT_SIG_FLAG_SIGALLSYNC
    THEN IF signalType = OMRPORT_SIG_FLAG_IS_SYNC
         THEN registerMainHandlersLoop(start, 1, signalFlags, signalType, local,
                                       "mainSynchSignalHandler", osr)
         ELSE start
    ELSE IF allowedSubsetOfFlags = OMRPORT_SIG_FLAG_SIGALLASYNC
    THEN IF signalType = OMRPORT_SIG_FLAG_IS_ASYNC
         THEN registerMainHandlersLoop(start, 1, signalFlags, signalType, local,
                                       "mainASynchSignalHandler", osr)
         ELSE start
    ELSE [start EXCEPT !.rc = OMRPORT_SIG_ERROR]

(***************************************************************************)
(* The async handler list.  A record is                                    *)
(* [portLib, handler, handler_arg, flags, addr]; addr is the address the   *)
(* record was allocated at, and the sequence order is the order of the     *)
(* next links from asyncHandlerList.                                       *)
(***************************************************************************)
NumAddrs == 4
Addrs == 1..NumAddrs

Min(S) == CHOOSE x \in S : \A y \in S : x <= y
RemoveAt(list, i) == SubSeq(list, 1, i - 1) \o SubSeq(list, i + 1, Len(list))
UsedAddrs(list) == {list[i].addr : i \in DOMAIN list}
FreeAddrs(list) == Addrs \ UsedAddrs(list)
Matches(list, portLibrary, handler, handler_arg) ==
    {i \in DOMAIN list : /\ list[i].portLib = portLibrary
                         /\ list[i].handler = handler
                         /\ list[i].handler_arg = handler_arg}

\* what mem_allocate_memory may return to a call that registers (who, flags):
\* a free address or NULL when the call allocates, NULL (unused) when not
Allocates(list, who, flags) == flags # {} /\ Matches(list, who[1], who[2], who[3]) = {}
FirstFit(list, who, flags) ==
    IF Allocates(list, who, flags) /\ FreeAddrs(list) # {}
    THEN {Min(FreeAddrs(list)), NULL} ELSE {NULL}

\* the unlink "*previousLink = cursor->next" with previousLink never advanced
setAsyncList_HeadUnlink(list, portLibrary, handler, handler_arg, flags, record) ==
    LET m == Matches(list, portLibrary, handler, handler_arg) IN
    IF m # {}
    THEN IF flags = {}
         THEN [list |-> SubSeq(list, Min(m) + 1, Len(list)), rc |-> 0]
         ELSE [list |-> [list EXCEPT ![Min(m)].flags = @ \cup flags], rc |-> 0]
    ELSE IF flags # {}
         THEN IF record = NULL
              THEN [list |-> list, rc |-> OMRPORT_SIG_ERROR]
              ELSE [list |-> Append(list, [portLib |-> portLibrary, handler |-> handler,
                                           handler_arg |-> handler_arg, flags |-> flags,
                                           addr |-> record]),
                    rc |-> 0]
         ELSE [list |-> list, rc |-> 0]

\* the part of omrsig_set_async_signal_handler that runs under asyncMonitor
setAsyncList(list, portLibrary, handler, handler_arg, flags, record) ==
    LET m == Matches(list, portLibrary, handler, handler_arg) IN
    IF m # {}
    THEN IF flags = {}
         THEN [list |-> RemoveAt(list, Min(m)), rc |-> 0]
         ELSE [list |-> [list EXCEPT ![Min(m)].flags = @ \cup flags], rc |-> 0]
    ELSE IF flags # {}
         THEN IF record = NULL
              THEN [list |-> list, rc |-> OMRPORT_SIG_ERROR]
              ELSE [list |-> Append(list, [portLib |-> portLibrary, handler |-> handler,
                                           handler_arg |-> handler_arg, flags |-> flags,
                                           addr |-> record]),
                    rc |-> 0]
         ELSE [list |-> list, rc |-> 0]

\* the part of omrsig_set_single_async_signal_handler that runs under asyncMonitor
setSingleAsyncList_AlwaysAppends(list, portLibrary, handler, handler_arg, portlibSignalFlag, record) ==
    LET m == Matches(list, portLibrary, handler, handler_arg)
        foundHandler == m # {}
        walked ==
            IF portlibSignalFlag = {}
            THEN IF foundHandler THEN RemoveAt(list, Min(m)) ELSE list
            ELSE [i \in DOMAIN list |->
                    IF list[i].portLib = portLibrary
                    THEN IF i \in m
                         THEN [list[i] EXCEPT !.flags = @ \cup portlibSignalFlag]
                         ELSE [list[i] EXCEPT !.flags =
                                 @ \ (portlibSignalFlag \ OMRPORT_SIG_FLAG_CONTROL_BITS_MASK)]
                    ELSE list[i]]
    IN
    IF portlibSignalFlag # {}
    THEN IF record = NULL
         THEN [list |-> walked, rc |-> OMRPORT_SIG_ERROR]
         ELSE [list |-> Append(walked, [portLib |-> portLibrary, handler |-> handler,
                                        handler_arg |-> handler_arg,
                                        flags |-> portlibSignalFlag, addr |-> record]),
               rc |-> 0]
    ELSE [list |-> walked, rc |-> 0]

setSingleAsyncList(list, portLibrary, handler, handler_arg, portlibSignalFlag, record) ==
    LET m == Matches(list, portLibrary, handler, handler_arg)
        foundHandler == m # {}
        walked ==
            IF portlibSignalFlag = {}
            THEN IF foundHandler THEN RemoveAt(list, Min(m)) ELSE list
            ELSE [i \in DOMAIN list |->
                    IF list[i].portLib = portLibrary
                    THEN IF i \in m
                         THEN [list[i] EXCEPT !.flags = @ \cup portlibSignalFlag]
                         ELSE [list[i] EXCEPT !.flags =
                                 @ \ (portlibSignalFlag \ OMRPORT_SIG_FLAG_CONTROL_BITS_MASK)]
                    ELSE list[i]]
    IN
    IF ~foundHandler /\ portlibSignalFlag # {}
    THEN IF record = NULL
         THEN [list |-> walked, rc |-> OMRPORT_SIG_ERROR]
         ELSE [list |-> Append(walked, [portLib |-> portLibrary, handler |-> handler,
                                        handler_arg |-> handler_arg,
                                        flags |-> portlibSignalFlag, addr |-> record]),
               rc |-> 0]
    ELSE [list |-> walked, rc |-> 0]

\* the part of both registration calls that runs under registerHandlerMonitor
asyncRegisterMain(os, options, flags, osr) ==
    IF OMR_ARE_ANY_BITS_SET(options, OMRPORT_SIG_OPTIONS_REDUCED_SIGNALS_ASYNCHRONOUS)
    THEN IF /\ OMR_ARE_ALL_BITS_SET(flags, OMRPORT_SIG_FLAG_SIGXFSZ)
            /\ OMR_ARE_ANY_BITS_SET(options, OMRPORT_SIG_OPTIONS_SIGXFSZ)
         THEN registerMainHandlers(os, OMRPORT_SIG_FLAG_SIGXFSZ,
                                   OMRPORT_SIG_FLAG_SIGALLASYNC, osr)
         ELSE [os |-> os, rc |-> OMRPORT_SIG_ERROR, old |-> "unset"]
    ELSE registerMainHandlers(os, flags, OMRPORT_SIG_FLAG_SIGALLASYNC, osr)

\* the flag checks at the head of omrsig_set_single_async_signal_handler
setSingleRejects(portlibSignalFlag) ==
    /\ portlibSignalFlag # {}
    /\ \/ ~OMR_IS_ONLY_ONE_BIT_SET(portlibSignalFlag \ OMRPORT_SIG_FLAG_CONTROL_BITS_MASK)
       \/ checkForAmbiguousSignalFlags(portlibSignalFlag)

(***************************************************************************)
(* Observation of calls: lastCall is the last entry point that returned,   *)
(* mark follows a registration of a new (portLib, handler, arg) and its    *)
(* removal by the next call.                                               *)
(***************************************************************************)
NoCall == [op |-> "none", who |-> <<>>, flags |-> {}, rc |-> 0]
NoMark == [st |-> "none", who |-> <<>>, before |-> <<>>]

MarkAfter(op, who, flags, listBefore) ==
    IF op = "set_async" /\ flags # {} /\ Matches(listBefore, who[1], who[2], who[3]) = {}
    THEN [st |-> "added", who |-> who, before |-> listBefore]
    ELSE IF op = "set_async" /\ flags = {} /\ mark.st = "added" /\ mark.who = who
    THEN [st |-> "done", who |-> who, before |-> mark.before]
    ELSE NoMark

(***************************************************************************)
(* The registration entry points as single steps (no dispatch in flight).  *)
(***************************************************************************)
omrsig_set_async_signal_handler(portLibrary, handler, handler_arg, flags, record, osr) ==
    \E reg \in {asyncRegisterMain(OSState, signalOptionsGlobal, flags, osr)} :
    \E upd \in {setAsyncList(asyncHandlerList, portLibrary, handler, handler_arg, flags, record)} :
    LET rc == IF checkForAmbiguousSignalFlags(flags) THEN OMRPORT_SIG_ERROR
              ELSE IF reg.rc # 0 THEN reg.rc ELSE upd.rc
    IN
    /\ asyncThreadCount = 0
    /\ IF checkForAmbiguousSignalFlags(flags)
       THEN UNCHANGED <<osVars, asyncHandlerList>>
       ELSE IF reg.rc # 0
       THEN SetOSState(reg.os) /\ UNCHANGED asyncHandlerList
       ELSE SetOSState(reg.os) /\ asyncHandlerList' = upd.list
    /\ lastCall' = [op |-> "set_async", who |-> <<portLibrary, handler, handler_arg>>,
                    flags |-> flags, rc |-> rc]
    /\ mark' = MarkAfter("set_async", <<portLibrary, handler, handler_arg>>, flags,
                         asyncHandlerList)
    /\ UNCHANGED <<optVars, lifeVars, signalOptionsGlobal, reporterVars, syncVars, tally>>

omrsig_set_single_async_signal_handler(portLibrary, handler, handler_arg, portlibSignalFlag, record, osr) ==
    \E reg \in {asyncRegisterMain(OSState, signalOptionsGlobal, portlibSignalFlag, osr)} :
    \E upd \in {setSingleAsyncList(asyncHandlerList, portLibrary, handler, handler_arg,
                                   portlibSignalFlag, record)} :
    LET rc == IF setSingleRejects(portlibSignalFlag) THEN OMRPORT_SIG_ERROR
              ELSE IF reg.rc # 0 THEN reg.rc ELSE upd.rc
    IN
    /\ asyncThreadCount = 0
    /\ IF setSingleRejects(portlibSignalFlag)
       THEN UNCHANGED <<osVars, asyncHandlerList>>
       ELSE IF reg.rc # 0
       THEN SetOSState(reg.os) /\ UNCHANGED asyncHandlerList
       ELSE SetOSState(reg.os) /\ asyncHandlerList' = upd.list
    /\ lastCall' = [op |-> "set_single_async", who |-> <<portLibrary, handler, handler_arg>>,
                    flags |-> portlibSignalFlag, rc |-> rc]
    /\ mark' = MarkAfter("set_single_async", <<portLibrary, handler, handler_arg>>,
                         portlibSignalFlag, asyncHandlerList)
    /\ UNCHANGED <<optVars, lifeVars, signalOptionsGlobal, reporterVars, syncVars, tally>>

(***************************************************************************)
(* The state after omrsig_startup: no OS handler installed, empty list.    *)
(***************************************************************************)
AsyncUnixSignals == {SIGHUP, SIGTERM}
ReporterIdle ==
    [pc |-> "loop", unixSignal |-> 0, cursor |-> NULL, asyncSignalFlag |-> {}, seen |-> <<>>]

\* the (portLibrary, handler, handler_arg) triples that register handlers
Clients == {<<"p1", "h1", "a1">>, <<"p1", "h2", "a1">>, <<"p2", "h1", "a1">>}

\* tally counts what happened: signals raised, wakeups posted, and per triple
\* the invocations of its handler and the raised signals not yet reported to it
NoTally ==
    [raised |-> [s \in AsyncUnixSignals |-> 0],
     posted |-> 0,
     invoked |-> [c \in Clients |-> [s \in AsyncUnixSignals |-> 0]],
     owed |-> [c \in Clients |-> {}]]

\* the port libraries of the process
PortLibs == {"p1", "p2"}

\* the steps of initializeSignalTools in the order it takes them: the tool a
\* step sets up and the number n of the OMRPORT_ERROR_STARTUP_SIGNAL_TOOLSn it
\* returns when the step fails
ToolSteps(zos) ==
    << [tool |-> "tlsKey", code |-> 1],
       [tool |-> "tlsKeyCurrentSignal", code |-> 2],
       [tool |-> "registerHandlerMonitor", code |-> 4],
       [tool |-> "asyncReporterShutdownMonitor", code |-> 5],
       [tool |-> "asyncMonitor", code |-> 6] >>
    \o (IF zos
        THEN << [tool |-> "wakeUpASyncReporterMutex", code |-> 8],
                [tool |-> "wakeUpASyncReporterCond", code |-> 9] >>
        ELSE << [tool |-> "wakeUpASyncReporter", code |-> 7] >>)
    \o << [tool |-> "asynchSignalReporterThread", code |-> 10] >>

SignalTools(zos) == {ToolSteps(zos)[i].tool : i \in DOMAIN ToolSteps(zos)}

\* the analyses one call of performOptimization has built: none
NoBuilds == [alias |-> FALSE, useDefs |-> "none", useDefsValid |-> FALSE, valueNumbers |-> "none", valueNumbersValid |-> FALSE, numBlocks |-> 0, numLoops |-> 0]

\* no cache holds anything
NoCaches == [useDefInfo |-> FALSE, valueNumberInfo |-> FALSE, symReferencesTable |-> FALSE, aliasSetsAreValid |-> FALSE]

\* the observation of an orchestrator step, before any step
NoStep ==
    [ op |-> "none", optNum |-> "none", options |-> "none", optimizer |-> 0, doThisOptimization |-> FALSE,
      reason |-> "none", cost |-> 0, instantiated |-> FALSE, mode |-> "none", blocks |-> {}, optIndex |-> 0,
      lastRunBefore |-> FALSE, removeDeadNodes |-> FALSE, stackedOptimizer |-> 0, numIters |-> 0, again |-> FALSE,
      interrupted |-> FALSE, nodesAdded |-> FALSE, symRefsChanged |-> FALSE, builds |-> NoBuilds, before |-> NoCaches ]

\* no optimizer has been created
NoOptimizer ==
    /\ optimizers = <<>>
    /\ compilation = [optimizer |-> 0]
    /\ optStack = <<>>
    /\ optResult = "idle"
    /\ optStep = NoStep

\* the signal dispatcher before any call
InitSignals ==
    /\ osAction = [s \in UnixSignals |-> "SIG_DFL"]
    /\ oldActions = [s \in UnixSignals |-> [action |-> "zeroed", restore |-> 0]]
    /\ syncSignalsWithHandlers = {}
    /\ asyncSignalsWithHandlers = {}
    /\ syncSignalsWithMainHandlers = {}
    /\ asyncSignalsWithMainHandlers = {}
    /\ signalOptionsGlobal = {}
    /\ asyncHandlerList = <<>>
    /\ asyncThreadCount = 0
    /\ signalCounts = [s \in AsyncUnixSignals |-> 0]
    /\ wakeUpASyncReporter = 0
    /\ shutDownASynchReporter = 0
    /\ reporter = ReporterIdle
    /\ raisers = [s \in AsyncUnixSignals |-> 0]
    /\ frames = <<>>
    /\ tlsKey = NULL
    /\ tlsKeyCurrentSignal = {}
    /\ ctl = <<>>
    /\ procState = "running"
    /\ attachedPortLibraries = Cardinality(PortLibs)
    /\ sig_shutdown = [p \in PortLibs |-> "sig_full_shutdown"]
    /\ osOriginal = osAction
    /\ optionsCaller = [pc |-> "idle", options |-> {}]
    /\ shutdownCaller = [pc |-> "idle", portLibrary |-> "none"]
    /\ registrant = NoRegistrant
    /\ lastCall = NoCall
    /\ mark = NoMark
    /\ tally = NoTally

InitState == InitSignals /\ NoOptimizer

\* the build with the counting semaphore
Init == InitState /\ J9ZOS390 = FALSE /\ signalTools = SignalTools(FALSE)

\* the build with the condition variable
InitCondvar == InitState /\ J9ZOS390 = TRUE /\ signalTools = SignalTools(TRUE)

(***************************************************************************)
(* Synchronous protection on one thread.                                   *)
(*                                                                         *)
(* frames holds the OMRSignalHandlerRecords of the omrsig_protect calls    *)
(* that are active on the thread, outermost first; a record is addressed   *)
(* by its index.  ctl is the thread's control stack: "fn" is a protected   *)
(* function running (frame 0: run without a record), "cb" is a frame's     *)
(* callback running inside mainSynchSignalHandler.  The fields calls,      *)
(* conts, entryTls and entryCur of a frame observe the run: they are read  *)
(* by no step, and neither is entryTop of a running callback, the top of   *)
(* the handler stack when its signal arrived.                              *)
(***************************************************************************)
MaxFrames == 3
MaxCtl == 5
MaxCalls == 2

Top(seq) == seq[Len(seq)]
Pop(seq) == SubSeq(seq, 1, Len(seq) - 1)

\* the first of the steps a step of the thread records in lastCall
SyncCall(op, flags, rc, frame) ==
    [op |-> op, who |-> <<>>, flags |-> flags, rc |-> rc, entryTls |-> frame.entryTls,
     entryCur |-> frame.entryCur, encl |-> frame.encl, calls |-> frame.calls,
     conts |-> frame.conts]

\* the frame a step that concerns no record reports
NoFrame == [entryTls |-> NULL, entryCur |-> {}, encl |-> 0, calls |-> 0, conts |-> 0]

\* omrsig_protect goes on without a record when -Xrs is in force
protectRunsUnprotected_Never(options) == FALSE

protectRunsUnprotected(options) ==
    OMR_ARE_ANY_BITS_SET(options, OMRPORT_SIG_OPTIONS_REDUCED_SIGNALS_SYNCHRONOUS)

portLibTypeFPEFilter(portLibType) ==
    IF OMR_ARE_ALL_BITS_SET(portLibType, OMRPORT_SIG_FLAG_SIGFPE)
    THEN OMRPORT_SIG_FLAG_SIGFPE
    ELSE portLibType

\* the walk of mainSynchSignalHandler from thisRecord down the previous
\* links: the first record whose flags hold the filter, NULL if there is none
RECURSIVE findRecord(_, _, _)
findRecord(fr, thisRecord, filter) ==
    IF thisRecord = NULL
    THEN NULL
    ELSE IF OMR_ARE_ALL_BITS_SET(fr[thisRecord].flags, filter)
         THEN thisRecord
         ELSE findRecord(fr, fr[thisRecord].previous, filter)

\* what the handler stack points at while the callback of thisRecord runs
unlinkForCallback_KeepLinked(fr, thisRecord) == thisRecord

unlinkForCallback(fr, thisRecord) == fr[thisRecord].previous

\* what the handler stack points at once the callback of thisRecord has returned
relinkAfterCallback(fr, thisRecord) == thisRecord

\* omrsig_protect after the siglongjmp back to it: the values it stores into
\* the handler stack and the current-signal cell
protectLongJump_KeepTls(thisRecord, tls) ==
    [tlsKey |-> tls, currentSignal |-> thisRecord.currentSignal]

protectLongJump(thisRecord, tls) ==
    [tlsKey |-> thisRecord.previous, currentSignal |-> thisRecord.currentSignal]

\* mainSynchSignalHandler offering the signal to the records from start on:
\* the callback of the first matching record is entered, or nobody handles it
\* omrthread_tls_set(thisThread, tlsKeyCurrentSignal, previousSignal): the value
\* the cell of the thread gets when a dispatch ends
restoreCurrentSignal_Null(previousSignal) == {}

restoreCurrentSignal(previousSignal) == previousSignal

\* what omrsig_handler, the entry point of the foreign signal-chain library,
\* can answer
ForeignResults == {"OMRSIG_RC_SIGNAL_HANDLED", "OMRSIG_RC_DEFAULT_ACTION_REQUIRED"}

\* the end of mainSynchSignalHandler, reached when no record took the signal
\* (build with OMRPORT_OMRSIG_SUPPORT, without J9ZOS390): the state the
\* process is left in.  foreignRc is the answer of omrsig_handler if it is
\* called, userOriginated is SI_USER == sigInfo->si_code.
unhandledSignal_ReturnsAfterChain(options, foreignRc, userOriginated) ==
    IF OMR_ARE_NO_BITS_SET(options, OMRPORT_SIG_OPTIONS_OMRSIG_NO_CHAIN)
    THEN IF foreignRc = "OMRSIG_RC_DEFAULT_ACTION_REQUIRED" /\ ~userOriginated
         THEN "aborted"
         ELSE "running"
    ELSE "aborted"

unhandledSignal(options, foreignRc, userOriginated) ==
    IF OMR_ARE_NO_BITS_SET(options, OMRPORT_SIG_OPTIONS_OMRSIG_NO_CHAIN)
    THEN IF foreignRc = "OMRSIG_RC_DEFAULT_ACTION_REQUIRED" /\ ~userOriginated
         THEN "aborted"
         ELSE "aborted"
    ELSE "aborted"

OfferSignal(fr, start, tlsIfNone, portLibType, previousSignal, ctlBase, entryTop) ==
    LET j == findRecord(fr, start, portLibTypeFPEFilter(portLibType)) IN
    IF j = NULL
    THEN /\ tlsKeyCurrentSignal' = restoreCurrentSignal(previousSignal)
         /\ tlsKey' = tlsIfNone
         /\ frames' = fr
         /\ ctl' = ctlBase
         /\ procState' \in {unhandledSignal(signalOptionsGlobal, rc, u) :
                                rc \in ForeignResults, u \in BOOLEAN}
    ELSE /\ tlsKeyCurrentSignal' = portLibType
         /\ tlsKey' = unlinkForCallback(fr, j)
         /\ frames' = [fr EXCEPT ![j].calls = @ + 1]
         /\ ctl' = Append(ctlBase, [kind |-> "cb", frame |-> j, portLibType |-> portLibType,
                                    previousSignal |-> previousSignal, entryTop |-> entryTop])
         /\ procState' = procState

omrsig_protect(flags, osr) ==
    LET flagsSignalsOnly == flags \cap OMRPORT_SIG_FLAG_SIGALLSYNC
        flagsWithoutMainHandlers ==
            (flagsSignalsOnly \ syncSignalsWithMainHandlers) \ OMRPORT_SIG_FLAG_CONTROL_BITS_MASK
        reg == IF flagsWithoutMainHandlers # {}
               THEN registerMainHandlers(OSState, flags, OMRPORT_SIG_FLAG_SIGALLSYNC, osr)
               ELSE [os |-> OSState, rc |-> 0, old |-> "unset"]
        new == Len(frames) + 1
        thisRecord == [previous |-> tlsKey,
                       flags |-> flags,
                       currentSignal |-> IF OMR_ARE_ANY_BITS_SET(flags, OMRPORT_SIG_FLAG_MAY_RETURN)
                                         THEN tlsKeyCurrentSignal ELSE {},
                       calls |-> 0, conts |-> 0,
                       entryTls |-> tlsKey, entryCur |-> tlsKeyCurrentSignal,
                       encl |-> IF ctl # <<>> /\ Top(ctl).kind = "fn" THEN Top(ctl).frame ELSE 0]
        entry == [NoFrame EXCEPT !.entryTls = tlsKey, !.entryCur = tlsKeyCurrentSignal]
    IN
    /\ procState = "running"
    /\ Len(frames) < MaxFrames
    /\ Len(ctl) < MaxCtl
    /\ IF checkForAmbiguousSignalFlags(flags)
       THEN /\ lastCall' = SyncCall("protect_rejected", flags, OMRPORT_SIG_ERROR, entry)
            /\ UNCHANGED <<osVars, syncVars>>
       ELSE IF protectRunsUnprotected(signalOptionsGlobal)
       THEN /\ ctl' = Append(ctl, [kind |-> "fn", frame |-> 0, flags |-> flags])
            /\ lastCall' = SyncCall("protect_fn", flags, 0, entry)
            /\ UNCHANGED <<osVars, frames, tlsKey, tlsKeyCurrentSignal, procState>>
       ELSE IF reg.rc # 0
       THEN /\ SetOSState(reg.os)
            /\ lastCall' = SyncCall("protect_rejected", flags, OMRPORT_SIG_ERROR, entry)
            /\ UNCHANGED syncVars
       ELSE /\ SetOSState(reg.os)
            /\ frames' = Append(frames, thisRecord)
            /\ tlsKey' = new
            /\ ctl' = Append(ctl, [kind |-> "fn", frame |-> new, flags |-> flags])
            /\ lastCall' = SyncCall("protect_fn", flags, 0, entry)
            /\ UNCHANGED <<tlsKeyCurrentSignal, procState>>
    /\ UNCHANGED <<optVars, lifeVars, signalOptionsGlobal, asyncHandlerList, reporterVars, mark, tally>>

\* the protected function returns: omrsig_protect pops its record and returns 0
FnReturn ==
    /\ procState = "running"
    /\ ctl # <<>>
    /\ Top(ctl).kind = "fn"
    /\ LET i == Top(ctl).frame IN
       IF i = 0
       THEN /\ lastCall' = SyncCall("protect_returned", Top(ctl).flags, 0, NoFrame)
            /\ UNCHANGED <<frames, tlsKey>>
       ELSE /\ tlsKey' = frames[i].previous
            /\ frames' = SubSeq(frames, 1, i - 1)
            /\ lastCall' = SyncCall("protect_returned", frames[i].flags, 0, frames[i])
    /\ ctl' = Pop(ctl)
    /\ UNCHANGED <<optVars, lifeVars, osVars, signalOptionsGlobal, asyncHandlerList, reporterVars,
                   tlsKeyCurrentSignal, procState, mark, tally>>

\* a synchronous signal is delivered to the thread: mainSynchSignalHandler up
\* to the call of the first callback (or to abort)
mainSynchSignalHandler(signal, sigInfo) ==
    LET portLibType == mapOSSignalToPortLib(signal, sigInfo) IN
    /\ procState = "running"
    /\ osAction[signal] = "mainSynchSignalHandler"
    /\ Len(ctl) < MaxCtl
    /\ \A i \in DOMAIN frames : frames[i].calls < MaxCalls
    /\ OfferSignal(frames, tlsKey, tlsKey, portLibType, tlsKeyCurrentSignal, ctl, tlsKey)
    /\ lastCall' = SyncCall("signal", portLibType, 0, NoFrame)
    /\ UNCHANGED <<optVars, lifeVars, osVars, signalOptionsGlobal, asyncHandlerList, reporterVars, mark, tally>>

\* a synchronous signal is delivered to a thread that is not attached to the
\* thread library (omrthread_self() is NULL): no record is looked at
mainSynchSignalHandler_unattached(signal, sigInfo) ==
    /\ procState = "running"
    /\ osAction[signal] = "mainSynchSignalHandler"
    /\ procState' \in {unhandledSignal(signalOptionsGlobal, rc, u) :
                           rc \in ForeignResults, u \in BOOLEAN}
    /\ lastCall' = SyncCall("signal_unattached", mapOSSignalToPortLib(signal, sigInfo), 0,
                            NoFrame)
    /\ UNCHANGED <<optVars, lifeVars, osVars, signalOptionsGlobal, asyncHandlerList, reporterVars,
                   frames, tlsKey, tlsKeyCurrentSignal, ctl, mark, tally>>

\* the callback returns result: the rest of mainSynchSignalHandler
CallbackReturn(result) ==
    /\ procState = "running"
    /\ ctl # <<>>
    /\ Top(ctl).kind = "cb"
    /\ LET act == Top(ctl)
           j == act.frame
           relinked == relinkAfterCallback(frames, j)
       IN
       CASE result = "OMRPORT_SIG_EXCEPTION_CONTINUE_SEARCH" ->
              /\ OfferSignal([frames EXCEPT ![j].conts = @ + 1], frames[j].previous, relinked,
                             act.portLibType, act.previousSignal, Pop(ctl), act.entryTop)
              /\ lastCall' = SyncCall("continue_search", act.portLibType, 0, NoFrame)
         [] result = "OMRPORT_SIG_EXCEPTION_CONTINUE_EXECUTION" ->
              /\ tlsKey' = relinked
              /\ tlsKeyCurrentSignal' = restoreCurrentSignal(act.previousSignal)
              /\ frames' = [frames EXCEPT ![j].conts = @ + 1]
              /\ ctl' = Pop(ctl)
              /\ lastCall' = SyncCall("continue_execution", act.portLibType, 0, NoFrame)
              /\ UNCHANGED procState
         [] result = "OMRPORT_SIG_EXCEPTION_RETURN" ->
              \* siglongjmp(thisRecord->returnBuf): the buffer is set only with MAY_RETURN
              /\ OMR_ARE_ANY_BITS_SET(frames[j].flags, OMRPORT_SIG_FLAG_MAY_RETURN)
              /\ LET back == protectLongJump(frames[j], relinked)
                     k == CHOOSE n \in DOMAIN ctl : ctl[n].kind = "fn" /\ ctl[n].frame = j
                 IN /\ tlsKey' = back.tlsKey
                    /\ tlsKeyCurrentSignal' = back.currentSignal
                    /\ frames' = SubSeq(frames, 1, j - 1)
                    /\ ctl' = SubSeq(ctl, 1, k - 1)
                    /\ lastCall' = SyncCall("protect_returned", frames[j].flags,
                                            OMRPORT_SIG_EXCEPTION_OCCURRED, frames[j])
              /\ UNCHANGED procState
    /\ UNCHANGED <<optVars, lifeVars, osVars, signalOptionsGlobal, asyncHandlerList, reporterVars, mark, tally>>

omrsig_set_options(options) ==
    LET anyHandlersInstalled ==
            /\ OMR_ARE_ANY_BITS_SET(options,
                   OMRPORT_SIG_OPTIONS_REDUCED_SIGNALS_SYNCHRONOUS
                       \cup OMRPORT_SIG_OPTIONS_REDUCED_SIGNALS_ASYNCHRONOUS)
            /\ (syncSignalsWithHandlers # {} \/ asyncSignalsWithHandlers # {})
    IN
    /\ procState = "running"
    /\ IF anyHandlersInstalled
       THEN /\ UNCHANGED signalOptionsGlobal
            /\ lastCall' = [op |-> "set_options", who |-> <<>>, flags |-> options, rc |-> -1]
       ELSE /\ signalOptionsGlobal' = signalOptionsGlobal \cup options
            /\ lastCall' = [op |-> "set_options", who |-> <<>>, flags |-> options, rc |-> 0]
    /\ UNCHANGED <<optVars, lifeVars, osVars, asyncHandlerList, reporterVars, syncVars, mark, tally>>

(***************************************************************************)
(* SpecSync: one thread calling omrsig_protect, nested at most MaxFrames   *)
(* deep, and taking synchronous signals in the protected functions and in  *)
(* the callbacks.                                                          *)
(***************************************************************************)
SyncFlagInputs ==
    { {},
      OMRPORT_SIG_FLAG_SIGSEGV \cup OMRPORT_SIG_FLAG_MAY_RETURN,
      OMRPORT_SIG_FLAG_SIGFPE \cup OMRPORT_SIG_FLAG_MAY_RETURN,
      OMRPORT_SIG_FLAG_SIGSEGV \cup OMRPORT_SIG_FLAG_MAY_CONTINUE_EXECUTION,
      OMRPORT_SIG_FLAG_MAY_RETURN,
      OMRPORT_SIG_FLAG_SIGSEGV \cup OMRPORT_SIG_FLAG_IS_ASYNC }

SyncSignalInputs == { <<SIGSEGV, "OTHER">>, <<SIGFPE, "FPE_FLTDIV">> }

CallbackResults ==
    { "OMRPORT_SIG_EXCEPTION_CONTINUE_SEARCH",
      "OMRPORT_SIG_EXCEPTION_CONTINUE_EXECUTION",
      "OMRPORT_SIG_EXCEPTION_RETURN" }

Protect == \E f \in SyncFlagInputs : omrsig_protect(f, AllOk)
RaiseSync == \E s \in SyncSignalInputs : mainSynchSignalHandler(s[1], s[2])
Callback == \E r \in CallbackResults : CallbackReturn(r)
RaiseSyncUnattached ==
    \E s \in SyncSignalInputs : mainSynchSignalHandler_unattached(s[1], s[2])
SetOptions ==
    \E o \in {OMRPORT_SIG_OPTIONS_REDUCED_SIGNALS_SYNCHRONOUS,
              OMRPORT_SIG_OPTIONS_OMRSIG_NO_CHAIN} : omrsig_set_options(o)

NextSync == Protect \/ FnReturn \/ RaiseSync \/ RaiseSyncUnattached \/ Callback \/ SetOptions

SpecSync == Init /\ [][NextSync]_vars

(***************************************************************************)
(* Claims on synchronous protection, checked under SpecSync.               *)
(***************************************************************************)
\* flags that name neither or both of the kinds of signal
AmbiguousFlags(flags) ==
    flags # {} /\ (("IS_SYNC" \in flags) <=> ("IS_ASYNC" \in flags))

IsProtectCall == lastCall'.op \in {"protect_fn", "protect_rejected"}

XrsSync ==
    OMR_ARE_ANY_BITS_SET(signalOptionsGlobal, OMRPORT_SIG_OPTIONS_REDUCED_SIGNALS_SYNCHRONOUS)

RunsFnUnprotected ==
    /\ lastCall'.op = "protect_fn"
    /\ ctl' = Append(ctl, [kind |-> "fn", frame |-> 0, flags |-> lastCall'.flags])
    /\ UNCHANGED <<osVars, frames, tlsKey, tlsKeyCurrentSignal>>

ReturnsZeroUnprotected ==
    (Top(ctl).kind = "fn" /\ Top(ctl).frame = 0 /\ lastCall'.op = "protect_returned")
        => (lastCall'.rc = 0 /\ UNCHANGED <<osVars, frames, tlsKey>>)

\* C8 as stated: with REDUCED_SIGNALS_SYNCHRONOUS set, every call of protect,
\* whatever its flags, runs fn without a record, installs no OS handler, and
\* returns 0 when fn returns.
C8_Original ==
    [][ XrsSync => /\ IsProtectCall => RunsFnUnprotected
                   /\ ctl # <<>> => ReturnsZeroUnprotected ]_vars

\* C8 amended: with REDUCED_SIGNALS_SYNCHRONOUS set, every call of protect
\* whose flags are not ambiguous (zero flags included) runs fn without a
\* record, installs no OS handler, and returns 0 when fn returns; a call with
\* ambiguous flags returns ERROR and fn is not run.
C8_XrsRunsFn ==
    [][ XrsSync =>
          /\ (IsProtectCall /\ ~AmbiguousFlags(lastCall'.flags))
                => RunsFnUnprotected
          /\ (IsProtectCall /\ AmbiguousFlags(lastCall'.flags))
                => (lastCall'.rc = OMRPORT_SIG_ERROR /\ UNCHANGED <<osVars, syncVars>>)
          /\ ctl # <<>> => ReturnsZeroUnprotected ]_vars

\* fn of a protect call with SIGSEGV | MAY_RETURN under -Xrs has returned
C8_Witness ==
    /\ XrsSync
    /\ lastCall.op = "protect_returned"
    /\ lastCall.rc = 0
    /\ lastCall.flags = OMRPORT_SIG_FLAG_SIGSEGV \cup OMRPORT_SIG_FLAG_MAY_RETURN
    /\ \A s \in UnixSignals : osAction[s] = "SIG_DFL"

\* C9: when a protect call with a synchronous signal and MAY_RETURN ends
\* because its callback returned EXCEPTION_RETURN, the callback was entered
\* once for that signal, protect returns EXCEPTION_OCCURRED, and the handler
\* stack and the current-signal cell are what they were when protect was called.
C9_ExceptionReturn ==
    (lastCall.op = "protect_returned" /\ lastCall.rc # 0) =>
        /\ lastCall.rc = OMRPORT_SIG_EXCEPTION_OCCURRED
        /\ lastCall.calls = lastCall.conts + 1
        /\ tlsKey = lastCall.entryTls
        /\ tlsKeyCurrentSignal = lastCall.entryCur

\* an outermost protect call has returned EXCEPTION_OCCURRED after one callback
C9_Witness ==
    /\ lastCall.op = "protect_returned"
    /\ lastCall.rc = OMRPORT_SIG_EXCEPTION_OCCURRED
    /\ lastCall.flags = OMRPORT_SIG_FLAG_SIGSEGV \cup OMRPORT_SIG_FLAG_MAY_RETURN
    /\ lastCall.calls = 1
    /\ lastCall.entryTls = NULL /\ lastCall.entryCur = {}
    /\ tlsKey = NULL /\ tlsKeyCurrentSignal = {} /\ frames = <<>> /\ ctl = <<>>

\* C10: when the protect call of a frame F2 that was pushed during the
\* protected function of frame F1 returns EXCEPTION_OCCURRED, F1 is the top
\* of the handler stack and the current-signal cell holds the value it had
\* when F2's protect was entered.
C10_NestedUnwind ==
    (/\ lastCall.op = "protect_returned"
     /\ lastCall.rc = OMRPORT_SIG_EXCEPTION_OCCURRED
     /\ lastCall.encl # 0) =>
        /\ tlsKey = lastCall.encl
        /\ Len(frames) = lastCall.encl
        /\ tlsKeyCurrentSignal = lastCall.entryCur


(***************************************************************************)
(* The entry points that only query or install for one signal.             *)
(***************************************************************************)
omrsig_can_protect(flags, resumableTrapsSupported) ==
    LET supportedFlags ==
            OMRPORT_SIG_FLAG_MAY_RETURN
            \cup (IF ~J9ZOS390 \/ resumableTrapsSupported
                  THEN OMRPORT_SIG_FLAG_MAY_CONTINUE_EXECUTION ELSE {})
            \cup (IF OMR_ARE_NO_BITS_SET(signalOptionsGlobal,
                                         OMRPORT_SIG_OPTIONS_REDUCED_SIGNALS_SYNCHRONOUS)
                  THEN OMRPORT_SIG_FLAG_SIGALLSYNC ELSE {})
        rc == IF checkForAmbiguousSignalFlags(flags) THEN OMRPORT_SIG_ERROR
              ELSE IF OMR_ARE_ALL_BITS_SET(supportedFlags, flags) THEN 1 ELSE 0
    IN
    /\ procState = "running"
    /\ lastCall' = [op |-> "can_protect", who |-> <<>>, flags |-> flags, rc |-> rc]
    /\ UNCHANGED <<optVars, lifeVars, osVars, signalOptionsGlobal, asyncHandlerList, reporterVars, syncVars,
                   mark, tally>>

omrsig_register_os_handler(portlibSignalFlag, newOSHandler, osr) ==
    LET signalBit == portlibSignalFlag \ OMRPORT_SIG_FLAG_CONTROL_BITS_MASK
        invalid == portlibSignalFlag = {} \/ ~OMR_IS_ONLY_ONE_BIT_SET(signalBit)
        reg == registerSignalHandlerWithOS(OSState, portlibSignalFlag, newOSHandler,
                                           osr[CHOOSE b \in signalBit : TRUE])
    IN
    /\ procState = "running"
    /\ IF invalid \/ checkForAmbiguousSignalFlags(portlibSignalFlag)
       THEN /\ UNCHANGED osVars
            /\ lastCall' = [op |-> "register_os_handler", who |-> <<>>,
                            flags |-> portlibSignalFlag, rc |-> OMRPORT_SIG_ERROR,
                            old |-> "unset"]
       ELSE /\ SetOSState(reg.os)
            /\ lastCall' = [op |-> "register_os_handler", who |-> <<>>,
                            flags |-> portlibSignalFlag, rc |-> reg.rc, old |-> reg.old]
    /\ UNCHANGED <<optVars, lifeVars, signalOptionsGlobal, asyncHandlerList, reporterVars, syncVars, mark, tally>>

omrsig_is_signal_ignored(portlibSignalFlag) ==
    LET signalBit == portlibSignalFlag \ OMRPORT_SIG_FLAG_CONTROL_BITS_MASK
        osSignalNo == mapPortLibSignalToOSSignal(portlibSignalFlag)
        failed == \/ /\ portlibSignalFlag # {}
                     /\ \/ ~OMR_IS_ONLY_ONE_BIT_SET(signalBit)
                        \/ checkForAmbiguousSignalFlags(portlibSignalFlag)
                  \/ osSignalNo = OMRPORT_SIG_ERROR
    IN
    /\ procState = "running"
    /\ lastCall' = [op |-> "is_signal_ignored", who |-> <<>>, flags |-> portlibSignalFlag,
                    rc |-> IF failed THEN OMRPORT_SIG_ERROR ELSE 0,
                    isSignalIgnored |-> ~failed /\ osAction[osSignalNo] = "SIG_IGN"]
    /\ UNCHANGED <<optVars, lifeVars, osVars, signalOptionsGlobal, asyncHandlerList, reporterVars, syncVars,
                   mark, tally>>

(***************************************************************************)
(* Spec: the public entry points called one after the other by one thread  *)
(* with flags of every kind: synchronous, asynchronous, both kinds, and   *)
(* no kind.                                                                *)
(***************************************************************************)
EntryFlagInputs ==
    { OMRPORT_SIG_FLAG_SIGSEGV,
      OMRPORT_SIG_FLAG_SIGTERM,
      OMRPORT_SIG_FLAG_SIGSEGV \cup OMRPORT_SIG_FLAG_IS_ASYNC,
      {"TERM"} }

MaxEntryFrames == 1

EntryClient == <<"p1", "h1", "a1">>

CanProtect == \E f \in EntryFlagInputs : omrsig_can_protect(f, TRUE)
ProtectCall ==
    /\ Len(frames) < MaxEntryFrames
    /\ \E f \in EntryFlagInputs : omrsig_protect(f, AllOk)
SetAsyncCall ==
    \E f \in EntryFlagInputs : \E record \in FirstFit(asyncHandlerList, EntryClient, f) :
        omrsig_set_async_signal_handler(EntryClient[1], EntryClient[2], EntryClient[3],
                                        f, record, AllOk)
SetSingleAsyncCall ==
    \E f \in EntryFlagInputs : \E record \in FirstFit(asyncHandlerList, EntryClient, f) :
        omrsig_set_single_async_signal_handler(EntryClient[1], EntryClient[2],
                                               EntryClient[3], f, record, AllOk)
RegisterOSHandler ==
    \E f \in EntryFlagInputs : omrsig_register_os_handler(f, "userHandler", AllOk)
IsSignalIgnored == \E f \in EntryFlagInputs : omrsig_is_signal_ignored(f)
SetOptionsCall ==
    \E o \in {OMRPORT_SIG_OPTIONS_REDUCED_SIGNALS_SYNCHRONOUS} : omrsig_set_options(o)

Next ==
    \/ CanProtect
    \/ ProtectCall
    \/ FnReturn
    \/ SetAsyncCall
    \/ SetSingleAsyncCall
    \/ RegisterOSHandler
    \/ IsSignalIgnored
    \/ SetOptionsCall

Spec == Init /\ [][Next]_vars

\* C7: an entry point that is called with ambiguous flags returns ERROR and
\* changes nothing: no OS handler is installed, no frame is pushed, fn is not
\* run, and the handler list, the bitmasks and the options stay as they were.
C7_AmbiguousRejected ==
    [][ (/\ lastCall'.op \in {"can_protect", "protect_fn", "protect_rejected", "set_async",
                              "set_single_async", "register_os_handler", "is_signal_ignored"}
         /\ AmbiguousFlags(lastCall'.flags))
        => /\ lastCall'.rc = OMRPORT_SIG_ERROR
           /\ lastCall'.op # "protect_fn"
           /\ UNCHANGED <<osVars, signalOptionsGlobal, asyncHandlerList, reporterVars,
                          syncVars>> ]_vars

\* every entry point has been called with ambiguous flags at a moment when
\* handlers were installed, a record was registered and a frame was pushed
C7_Witness ==
    /\ lastCall.op = "set_async"
    /\ AmbiguousFlags(lastCall.flags)
    /\ lastCall.rc = OMRPORT_SIG_ERROR
    /\ asyncHandlerList # <<>>
    /\ frames # <<>>
    /\ syncSignalsWithMainHandlers # {}
    /\ asyncSignalsWithMainHandlers # {}

(***************************************************************************)
(* SpecAsyncApi: registrations made one after the other by the clients of  *)
(* two port libraries, no signal being dispatched.                         *)
(***************************************************************************)
AsyncFlagInputs ==
    { {}, OMRPORT_SIG_FLAG_SIGTERM, OMRPORT_SIG_FLAG_SIGHUP,
      OMRPORT_SIG_FLAG_SIGTERM \cup OMRPORT_SIG_FLAG_SIGHUP,
      {"TERM"} }

\* the registering clients: (portLib, handler, handler_arg)
SetAsync ==
    \E c \in Clients, f \in AsyncFlagInputs :
        \E record \in FirstFit(asyncHandlerList, c, f) :
            omrsig_set_async_signal_handler(c[1], c[2], c[3], f, record, AllOk)

SetSingleAsync ==
    \E c \in Clients, f \in AsyncFlagInputs :
        \E record \in FirstFit(asyncHandlerList, c, f) :
            omrsig_set_single_async_signal_handler(c[1], c[2], c[3], f, record, AllOk)

NextAsyncApi == SetAsync \/ SetSingleAsync

SpecAsyncApi == Init /\ [][NextAsyncApi]_vars

\* C5: a registration of a new (portLib, handler, arg) with non-zero flags,
\* followed by its removal (flags 0), leaves the async handler list as it was
\* before the two calls: same records, same order, same masks.
C5_RoundTrip == mark.st = "done" => asyncHandlerList = mark.before

\* C5 witness: the pair of calls has been made on a list holding other
\* records, and the first call did add the record.
C5_Witness ==
    /\ mark.st = "done"
    /\ Len(mark.before) >= 2
    /\ lastCall.op = "set_async" /\ lastCall.flags = {} /\ lastCall.rc = 0
    /\ asyncSignalsWithMainHandlers # {}

\* C6: after a successful setSingleAsyncSignalHandler(h, arg, single) with a
\* non-zero flag, the records of the whole list whose mask holds that signal
\* bit are exactly the one record of (portLib, h, arg).
C6_SingleOwner ==
    (lastCall.op = "set_single_async" /\ lastCall.rc = 0 /\ lastCall.flags # {}) =>
        LET bit == lastCall.flags \ OMRPORT_SIG_FLAG_CONTROL_BITS_MASK
            holders == {i \in DOMAIN asyncHandlerList :
                            OMR_ARE_ALL_BITS_SET(asyncHandlerList[i].flags, bit)}
        IN /\ Cardinality(holders) = 1
           /\ holders = Matches(asyncHandlerList, lastCall.who[1], lastCall.who[2],
                                lastCall.who[3])

(***************************************************************************)
(* Asynchronous delivery.  The main async handler runs in signal context   *)
(* on any thread in two steps (count, then wake up); the reporter thread   *)
(* is followed statement by statement through reporter.pc:                 *)
(*   loop -> sem_wait -> scan -> rh_head -> rh_inc -> rh_walk -> rh_dec    *)
(*        -> sub -> loop                      (semaphore build)            *)
(*   loop -> scan -> ... -> sub -> scan ... -> cond_wait -> waiting        *)
(*                                            (condition variable build)   *)
(***************************************************************************)
MaxRaises == 2

otherVars == <<osVars, signalOptionsGlobal, syncVars, lastCall, mark>>

FirstSignal == Min(AsyncUnixSignals)
\* the next index of the for loop over signalCounts that can hold a count, 0 at its end
NextSignal(u) ==
    IF \E v \in AsyncUnixSignals : v > u
    THEN Min({v \in AsyncUnixSignals : v > u})
    ELSE 0

RecordAt(list, a) == list[CHOOSE i \in DOMAIN list : list[i].addr = a]
NextOf(list, a) ==
    LET i == CHOOSE j \in DOMAIN list : list[j].addr = a
    IN IF i < Len(list) THEN list[i + 1].addr ELSE NULL
Who(rec) == <<rec.portLib, rec.handler, rec.handler_arg>>
Covering(list, asyncSignalFlag) ==
    {Who(list[i]) : i \in {j \in DOMAIN list : OMR_ARE_ALL_BITS_SET(list[j].flags, asyncSignalFlag)}}

\* the test of the reporter's scan on a count it has read
signalPending_Always(signalCount) == TRUE

signalPending(signalCount) == signalCount > 0

\* mainASynchSignalHandler, first statement: addAtomic(&signalCounts[signal], 1)
mainASynchSignalHandler_count(signal) ==
    /\ procState = "running"
    /\ osAction[signal] = "mainASynchSignalHandler"
    /\ tally.raised[SIGHUP] + tally.raised[SIGTERM] < MaxRaises
    /\ signalCounts' = [signalCounts EXCEPT ![signal] = @ + 1]
    /\ raisers' = [raisers EXCEPT ![signal] = @ + 1]
    /\ tally' = [tally EXCEPT
                   !.raised[signal] = @ + 1,
                   !.owed = [c \in Clients |->
                               IF c \in Covering(asyncHandlerList,
                                                 mapOSSignalToPortLib(signal, "NULL"))
                               THEN @[c] \cup {signal} ELSE @[c]]]
    /\ UNCHANGED <<optVars, lifeVars, otherVars, asyncHandlerList, asyncThreadCount, wakeUpASyncReporter,
                   shutDownASynchReporter, J9ZOS390, reporter>>

\* mainASynchSignalHandler, second statement: SIGSEM_POST, or pthread_cond_signal
\* under the mutex, which wakes the reporter only if it is waiting
mainASynchSignalHandler_wake(signal) ==
    /\ procState = "running"
    /\ raisers[signal] > 0
    /\ raisers' = [raisers EXCEPT ![signal] = @ - 1]
    /\ tally' = [tally EXCEPT !.posted = @ + 1]
    /\ IF J9ZOS390
       THEN /\ reporter' = IF reporter.pc = "waiting"
                           THEN [reporter EXCEPT !.pc = "loop"] ELSE reporter
            /\ UNCHANGED wakeUpASyncReporter
       ELSE /\ wakeUpASyncReporter' = wakeUpASyncReporter + 1
            /\ UNCHANGED reporter
    /\ UNCHANGED <<optVars, lifeVars, otherVars, asyncHandlerList, asyncThreadCount, signalCounts,
                   shutDownASynchReporter, J9ZOS390>>

\* while (0 == shutDownASynchReporter)
Reporter_loop ==
    /\ procState = "running"
    /\ reporter.pc = "loop"
    /\ reporter' = IF shutDownASynchReporter # 0
                   THEN [reporter EXCEPT !.pc = "exit"]
                   ELSE IF J9ZOS390
                   THEN [reporter EXCEPT !.pc = "scan", !.unixSignal = FirstSignal]
                   ELSE [reporter EXCEPT !.pc = "sem_wait"]
    /\ UNCHANGED <<optVars, lifeVars, otherVars, asyncHandlerList, asyncThreadCount, signalCounts,
                   wakeUpASyncReporter, shutDownASynchReporter, J9ZOS390, raisers, tally>>

\* while (0 != SIGSEM_WAIT(wakeUpASyncReporter));
Reporter_sem_wait ==
    /\ procState = "running"
    /\ reporter.pc = "sem_wait"
    /\ wakeUpASyncReporter > 0
    /\ wakeUpASyncReporter' = wakeUpASyncReporter - 1
    /\ reporter' = [reporter EXCEPT !.pc = "scan", !.unixSignal = FirstSignal]
    /\ UNCHANGED <<optVars, lifeVars, otherVars, asyncHandlerList, asyncThreadCount, signalCounts,
                   shutDownASynchReporter, J9ZOS390, raisers, tally>>

\* one iteration of the for loop over signalCounts
Reporter_scan ==
    /\ procState = "running"
    /\ reporter.pc = "scan"
    /\ reporter' =
         IF signalPending(signalCounts[reporter.unixSignal])
         THEN [reporter EXCEPT !.pc = "rh_head",
                               !.asyncSignalFlag = mapOSSignalToPortLib(reporter.unixSignal, "NULL")]
         ELSE IF NextSignal(reporter.unixSignal) # 0
         THEN [reporter EXCEPT !.unixSignal = NextSignal(reporter.unixSignal)]
         ELSE IF J9ZOS390 /\ shutDownASynchReporter = 0
         THEN [reporter EXCEPT !.pc = "cond_wait", !.unixSignal = 0]
         ELSE [reporter EXCEPT !.pc = "loop", !.unixSignal = 0]
    /\ UNCHANGED <<optVars, lifeVars, otherVars, asyncHandlerList, asyncThreadCount, signalCounts,
                   wakeUpASyncReporter, shutDownASynchReporter, J9ZOS390, raisers, tally>>

\* runHandlers: OMRUnixAsyncHandlerRecord *cursor = asyncHandlerList;
runHandlers_head ==
    /\ procState = "running"
    /\ reporter.pc = "rh_head"
    /\ reporter' = [reporter EXCEPT
                      !.pc = "rh_inc",
                      !.cursor = IF asyncHandlerList = <<>> THEN NULL
                                 ELSE asyncHandlerList[1].addr,
                      !.seen = asyncHandlerList]
    /\ UNCHANGED <<optVars, lifeVars, otherVars, asyncHandlerList, asyncThreadCount, signalCounts,
                   wakeUpASyncReporter, shutDownASynchReporter, J9ZOS390, raisers, tally>>

\* runHandlers: asyncThreadCount++ under asyncMonitor
runHandlers_inc ==
    /\ procState = "running"
    /\ reporter.pc = "rh_inc"
    /\ asyncThreadCount' = asyncThreadCount + 1
    /\ reporter' = [reporter EXCEPT !.pc = "rh_walk"]
    /\ UNCHANGED <<optVars, lifeVars, otherVars, asyncHandlerList, signalCounts, wakeUpASyncReporter,
                   shutDownASynchReporter, J9ZOS390, raisers, tally>>

\* the test of runHandlers on the flags of a record
handlesSignal_AnyBit(flags, asyncSignalFlag) == OMR_ARE_ANY_BITS_SET(flags, asyncSignalFlag)

handlesSignal(flags, asyncSignalFlag) == OMR_ARE_ALL_BITS_SET(flags, asyncSignalFlag)

\* the record the reporter calls and the record it goes to next
VisitLive(rec, next) ==
    /\ reporter' = [reporter EXCEPT !.cursor = next]
    /\ tally' = IF handlesSignal(rec.flags, reporter.asyncSignalFlag)
                THEN [tally EXCEPT !.invoked[Who(rec)][reporter.unixSignal] = @ + 1,
                                   !.owed[Who(rec)] = @ \ {reporter.unixSignal}]
                ELSE tally
    /\ UNCHANGED procState

\* runHandlers: one iteration of the walk, or its end.  A cursor that points
\* at freed memory is read with undefined behaviour: the record may still be
\* as it was when the head was read, or the thread crashes.
runHandlers_walk ==
    /\ procState = "running"
    /\ reporter.pc = "rh_walk"
    /\ IF reporter.cursor = NULL
       THEN /\ reporter' = [reporter EXCEPT !.pc = "rh_dec"]
            /\ UNCHANGED <<tally, procState>>
       ELSE IF reporter.cursor \in UsedAddrs(asyncHandlerList)
       THEN VisitLive(RecordAt(asyncHandlerList, reporter.cursor),
                      NextOf(asyncHandlerList, reporter.cursor))
       ELSE \/ VisitLive(RecordAt(reporter.seen, reporter.cursor),
                         NextOf(reporter.seen, reporter.cursor))
            \/ /\ procState' = "crashed"
               /\ UNCHANGED <<reporter, tally>>
    /\ UNCHANGED <<optVars, lifeVars, osVars, signalOptionsGlobal, frames, tlsKey, tlsKeyCurrentSignal, ctl,
                   lastCall, mark, asyncHandlerList, asyncThreadCount, signalCounts,
                   wakeUpASyncReporter, shutDownASynchReporter, J9ZOS390, raisers>>

\* runHandlers: --asyncThreadCount under asyncMonitor
runHandlers_dec ==
    /\ procState = "running"
    /\ reporter.pc = "rh_dec"
    /\ asyncThreadCount' = asyncThreadCount - 1
    /\ reporter' = [reporter EXCEPT !.pc = "sub", !.seen = <<>>]
    /\ UNCHANGED <<optVars, lifeVars, otherVars, asyncHandlerList, signalCounts, wakeUpASyncReporter,
                   shutDownASynchReporter, J9ZOS390, raisers, tally>>

\* subtractAtomic(&signalCounts[unixSignal], 1), then break (semaphore) or
\* unixSignal = 0 and the for loop starts again (condition variable)
Reporter_sub ==
    /\ procState = "running"
    /\ reporter.pc = "sub"
    /\ signalCounts' = [signalCounts EXCEPT ![reporter.unixSignal] = @ - 1]
    /\ reporter' = IF J9ZOS390
                   THEN [reporter EXCEPT !.pc = "scan", !.unixSignal = FirstSignal,
                                         !.asyncSignalFlag = {}]
                   ELSE [reporter EXCEPT !.pc = "loop", !.unixSignal = 0,
                                         !.asyncSignalFlag = {}]
    /\ UNCHANGED <<optVars, lifeVars, otherVars, asyncHandlerList, asyncThreadCount, wakeUpASyncReporter,
                   shutDownASynchReporter, J9ZOS390, raisers, tally>>

\* pthread_mutex_lock; pthread_cond_wait: the reporter starts to wait
Reporter_cond_wait ==
    /\ procState = "running"
    /\ reporter.pc = "cond_wait"
    /\ reporter' = [reporter EXCEPT !.pc = "waiting"]
    /\ UNCHANGED <<optVars, lifeVars, otherVars, asyncHandlerList, asyncThreadCount, signalCounts,
                   wakeUpASyncReporter, shutDownASynchReporter, J9ZOS390, raisers, tally>>

\* pthread_cond_wait may return without a signal
Reporter_spurious_wakeup ==
    /\ procState = "running"
    /\ reporter.pc = "waiting"
    /\ reporter' = [reporter EXCEPT !.pc = "loop"]
    /\ UNCHANGED <<optVars, lifeVars, otherVars, asyncHandlerList, asyncThreadCount, signalCounts,
                   wakeUpASyncReporter, shutDownASynchReporter, J9ZOS390, raisers, tally>>

\* removeAsyncHandlers under asyncMonitor, once no signal is being reported
removeAsyncHandlers(portLibrary) ==
    /\ procState = "running"
    /\ asyncThreadCount = 0
    /\ asyncHandlerList' = SelectSeq(asyncHandlerList, LAMBDA r : r.portLib # portLibrary)
    /\ lastCall' = [op |-> "remove_async_handlers", who |-> <<portLibrary>>, flags |-> {},
                    rc |-> 0]
    /\ mark' = NoMark
    /\ UNCHANGED <<optVars, lifeVars, osVars, signalOptionsGlobal, reporterVars, syncVars, tally>>

RaiseCount == \E s \in AsyncUnixSignals : mainASynchSignalHandler_count(s)
RaiseWake == \E s \in AsyncUnixSignals : mainASynchSignalHandler_wake(s)

ReporterStep ==
    \/ Reporter_loop
    \/ Reporter_sem_wait
    \/ Reporter_scan
    \/ runHandlers_head
    \/ runHandlers_inc
    \/ runHandlers_walk
    \/ runHandlers_dec
    \/ Reporter_sub
    \/ Reporter_cond_wait

(***************************************************************************)
(* SpecDeliver, SpecDeliverFair, SpecCondvar: three handlers are           *)
(* registered with the masks {SIGTERM}, {SIGTERM, SIGHUP} and {SIGHUP}, in *)
(* any order and maybe not all, and from the first signal on the list is   *)
(* left alone while up to MaxRaises signals are raised.                    *)
(***************************************************************************)
MaskOf(c) ==
    CASE c = <<"p1", "h1", "a1">> -> OMRPORT_SIG_FLAG_SIGTERM
      [] c = <<"p1", "h2", "a1">> -> OMRPORT_SIG_FLAG_SIGTERM \cup OMRPORT_SIG_FLAG_SIGHUP
      [] c = <<"p2", "h1", "a1">> -> OMRPORT_SIG_FLAG_SIGHUP

NothingRaised == \A s \in AsyncUnixSignals : tally.raised[s] = 0

RegisterBeforeDelivery ==
    /\ procState = "running"
    /\ NothingRaised
    /\ \E c \in Clients :
         /\ Matches(asyncHandlerList, c[1], c[2], c[3]) = {}
         /\ \E record \in FirstFit(asyncHandlerList, c, MaskOf(c)) :
              omrsig_set_async_signal_handler(c[1], c[2], c[3], MaskOf(c), record, AllOk)

NextDeliver ==
    \/ RegisterBeforeDelivery
    \/ RaiseCount
    \/ RaiseWake
    \/ Reporter_loop
    \/ Reporter_sem_wait
    \/ Reporter_scan
    \/ runHandlers_head
    \/ runHandlers_inc
    \/ runHandlers_walk
    \/ runHandlers_dec
    \/ Reporter_sub

SpecDeliver == Init /\ [][NextDeliver]_vars

\* the reporter thread and a started signal handler are scheduled fairly
SpecDeliverFair == SpecDeliver /\ WF_vars(ReporterStep) /\ WF_vars(RaiseWake)

NextCondvar ==
    \/ RegisterBeforeDelivery
    \/ RaiseCount
    \/ RaiseWake
    \/ Reporter_loop
    \/ Reporter_scan
    \/ runHandlers_head
    \/ runHandlers_inc
    \/ runHandlers_walk
    \/ runHandlers_dec
    \/ Reporter_sub
    \/ Reporter_cond_wait
    \/ Reporter_spurious_wakeup

SpecCondvar ==
    InitCondvar /\ [][NextCondvar]_vars /\ WF_vars(ReporterStep) /\ WF_vars(RaiseWake)

\* no signal is on its way to the handlers
Quiescent ==
    /\ \A s \in AsyncUnixSignals : raisers[s] = 0 /\ signalCounts[s] = 0
    /\ wakeUpASyncReporter = 0
    /\ reporter.pc = "sem_wait"

CoversSignal(flags, s) == mapOSSignalToPortLib(s, "NULL") \subseteq flags

Registered(c) == Matches(asyncHandlerList, c[1], c[2], c[3]) # {}

\* a handler is never called more often than its signal was raised, and never
\* for a signal that its mask does not cover
NeverTooOften ==
    \A c \in Clients : \A s \in AsyncUnixSignals :
        /\ tally.invoked[c][s] <= tally.raised[s]
        /\ (~Registered(c) \/ ~CoversSignal(MaskOf(c), s)) => tally.invoked[c][s] = 0

\* once the signals raised have been dealt with, every handler was called as
\* often as the signals its mask covers were raised
OncePerRaise ==
    Quiescent =>
        \A c \in Clients : \A s \in AsyncUnixSignals :
            (Registered(c) /\ CoversSignal(MaskOf(c), s)) => tally.invoked[c][s] = tally.raised[s]

\* C2: on the semaphore build, with the list left alone while signals are
\* raised, every handler whose mask covers a raised signal is called exactly
\* once per raise, a handler whose mask does not cover it is not called, and
\* the signals raised are always dealt with in the end.
C2_ExactlyOncePerRaise == [](NeverTooOften /\ OncePerRaise) /\ []<>Quiescent

\* masks {SIGTERM}, {SIGTERM, SIGHUP}, {SIGHUP} and one SIGTERM: the first two
\* handlers were called once and the third was not called
C2_Witness ==
    /\ Quiescent
    /\ Len(asyncHandlerList) = 3
    /\ tally.raised[SIGTERM] = 1 /\ tally.raised[SIGHUP] = 0
    /\ tally.invoked[<<"p1", "h1", "a1">>][SIGTERM] = 1
    /\ tally.invoked[<<"p1", "h2", "a1">>][SIGTERM] = 1
    /\ tally.invoked[<<"p2", "h1", "a1">>][SIGTERM] = 0
    /\ asyncThreadCount = 0

\* C3: on the condition variable build, a handler that is owed a raised
\* signal is called for it in the end.
C3_EventuallyInvoked ==
    \A c \in Clients : \A s \in AsyncUnixSignals :
        (s \in tally.owed[c]) ~> (s \notin tally.owed[c])

(***************************************************************************)
(* SpecConcurrent: the semaphore build with SIGTERM raised while two port  *)
(* libraries register and remove their SIGTERM handlers and one of them    *)
(* shuts its handlers down.                                                *)
(***************************************************************************)
ConcurrentClients == {<<"p1", "h1", "a1">>, <<"p2", "h1", "a1">>}

ConcurrentSetAsync ==
    /\ procState = "running"
    /\ \E c \in ConcurrentClients : \E f \in {OMRPORT_SIG_FLAG_SIGTERM, {}} :
         \E record \in FirstFit(asyncHandlerList, c, f) :
            omrsig_set_async_signal_handler(c[1], c[2], c[3], f, record, AllOk)

ConcurrentRemove == removeAsyncHandlers("p2")

NextConcurrent ==
    \/ ConcurrentSetAsync
    \/ ConcurrentRemove
    \/ RaiseCount
    \/ RaiseWake
    \/ Reporter_loop
    \/ Reporter_sem_wait
    \/ Reporter_scan
    \/ runHandlers_head
    \/ runHandlers_inc
    \/ runHandlers_walk
    \/ runHandlers_dec
    \/ Reporter_sub

SpecConcurrent == Init /\ [][NextConcurrent]_vars

\* C1: from the moment runHandlers has read the list head to the end of its
\* walk the handler list is what it was when the head was read, and the
\* record the reporter is about to visit is a record of the list.
C1_FrozenDuringDispatch ==
    /\ procState # "crashed"
    /\ reporter.pc \in {"rh_inc", "rh_walk"} =>
          /\ asyncHandlerList = reporter.seen
          /\ reporter.cursor # NULL => reporter.cursor \in UsedAddrs(asyncHandlerList)

SumOver(f) == f[SIGHUP] + f[SIGTERM]

\* C4: handlers are called by the reporter's walk only; a step that raises a
\* count is a step of the main async handler that adds one to the count of
\* its signal and does nothing else, and it is followed by one wakeup per
\* count; a count is lowered by the reporter only, by one, and never below 0.
C4_SerializedDelivery ==
    [][ /\ tally'.invoked # tally.invoked => reporter.pc = "rh_walk"
        /\ \A s \in AsyncUnixSignals :
             /\ signalCounts'[s] > signalCounts[s] =>
                   /\ signalCounts'[s] = signalCounts[s] + 1
                   /\ raisers'[s] = raisers[s] + 1
                   /\ UNCHANGED <<asyncHandlerList, asyncThreadCount, wakeUpASyncReporter,
                                  reporter, osVars>>
                   /\ tally'.invoked = tally.invoked
             /\ signalCounts'[s] < signalCounts[s] =>
                   /\ reporter.pc = "sub" /\ reporter.unixSignal = s
                   /\ signalCounts'[s] = signalCounts[s] - 1
             /\ signalCounts'[s] >= 0
        /\ wakeUpASyncReporter' > wakeUpASyncReporter =>
             /\ wakeUpASyncReporter' = wakeUpASyncReporter + 1
             /\ SumOver(raisers') = SumOver(raisers) - 1
             /\ UNCHANGED <<signalCounts, asyncHandlerList, asyncThreadCount, reporter>>
             /\ tally'.invoked = tally.invoked
        /\ tally'.posted + SumOver(raisers') = SumOver(tally'.raised) ]_vars

\* two SIGTERMs have been counted, posted and reported to a handler
C4_Witness ==
    /\ tally.raised[SIGTERM] = 2
    /\ tally.posted = 2
    /\ \E c \in ConcurrentClients : tally.invoked[c][SIGTERM] = 2
    /\ signalCounts[SIGTERM] = 0
    /\ wakeUpASyncReporter = 0

(***************************************************************************)
(* Attach counting: omrsig_startup, the shutdown routine a port library    *)
(* has in its function table, and the tools of the dispatcher.             *)
(***************************************************************************)
\* failAt = 0: every step succeeds; failAt = k: step k of ToolSteps fails and
\* the function returns at once, the tools of the earlier steps stay set up.
\* The numeric values of the error codes are not in the source file; rc is the
\* negated number n of OMRPORT_ERROR_STARTUP_SIGNAL_TOOLSn.
initializeSignalTools(failAt) ==
    LET steps == ToolSteps(J9ZOS390) IN
    IF failAt = 0
    THEN [tools |-> SignalTools(J9ZOS390), rc |-> 0]
    ELSE [tools |-> {steps[i].tool : i \in 1..(failAt - 1)}, rc |-> 0 - steps[failAt].code]

destroySignalTools(tools) ==
    tools \ (SignalTools(J9ZOS390) \ {"asynchSignalReporterThread"})

omrsig_startup(portLibrary, failAt) ==
    LET first == attachedPortLibraries = 0
        init == initializeSignalTools(failAt)
        result == IF first THEN init.rc ELSE 0
    IN
    /\ procState = "running"
    /\ sig_shutdown[portLibrary] = "omrsig_shutdown"
    /\ attachedPortLibraries' = attachedPortLibraries + 1
    /\ IF first
       THEN /\ oldActions' = [s \in UnixSignals |-> [oldActions[s] EXCEPT !.restore = 0]]
            /\ signalTools' = signalTools \cup init.tools
            /\ wakeUpASyncReporter' =
                   IF {"wakeUpASyncReporter", "wakeUpASyncReporterCond"} \cap init.tools # {}
                   THEN 0 ELSE wakeUpASyncReporter
            /\ reporter' = IF "asynchSignalReporterThread" \in init.tools
                           THEN ReporterIdle ELSE reporter
       ELSE UNCHANGED <<oldActions, signalTools, wakeUpASyncReporter, reporter>>
    /\ sig_shutdown' = IF result = 0
                       THEN [sig_shutdown EXCEPT ![portLibrary] = "sig_full_shutdown"]
                       ELSE sig_shutdown
    /\ lastCall' = [op |-> "startup", who |-> <<portLibrary>>, flags |-> {}, rc |-> result,
                    first |-> first]
    /\ mark' = NoMark
    /\ UNCHANGED <<optVars, osAction, syncSignalsWithHandlers, asyncSignalsWithHandlers,
                   syncSignalsWithMainHandlers, asyncSignalsWithMainHandlers,
                   signalOptionsGlobal, asyncHandlerList, asyncThreadCount, signalCounts,
                   shutDownASynchReporter, J9ZOS390, raisers, syncVars, osOriginal, optionsCaller, shutdownCaller,
                   registrant, tally>>

\* the routine the function table holds until a startup has succeeded
omrsig_shutdown(portLibrary) ==
    /\ procState = "running"
    /\ sig_shutdown[portLibrary] = "omrsig_shutdown"
    /\ lastCall' = [op |-> "shutdown_empty", who |-> <<portLibrary>>, flags |-> {}, rc |-> 0]
    /\ mark' = NoMark
    /\ UNCHANGED <<optVars, lifeVars, osVars, signalOptionsGlobal, asyncHandlerList, reporterVars,
                   syncVars, tally>>

\* the for loop of sig_full_shutdown over oldActions, index ascending
RECURSIVE restoreOldActions(_, _)
restoreOldActions(os, indexes) ==
    IF indexes = {}
    THEN os
    ELSE LET index == Min(indexes)
             portlibSignalFlag == mapOSSignalToPortLib(index, "NULL")
             os1 == [os EXCEPT !.action[index] = os.old[index].action]
             os2 == unsetBitMaskSignalsWithHandlers(os1, portlibSignalFlag)
             os3 == unsetBitMaskSignalsWithMainHandlers(os2, portlibSignalFlag)
             os4 == [os3 EXCEPT !.old[index].restore = 0]
         IN restoreOldActions(IF os.old[index].restore # 0 THEN os4 ELSE os,
                              indexes \ {index})

\* sig_full_shutdown with the reporter thread idle: the thread takes the post,
\* finds no count, leaves its loop, clears shutDownASynchReporter and exits
\* before the caller goes on to destroySignalTools.  A port library that has
\* been shut down is discarded; one created in its place starts with the
\* function table's omrsig_shutdown.
sig_full_shutdown(portLibrary) ==
    LET last == attachedPortLibraries - 1 = 0 IN
    /\ procState = "running"
    /\ sig_shutdown[portLibrary] = "sig_full_shutdown"
    /\ attachedPortLibraries' = attachedPortLibraries - 1
    /\ IF last
       THEN /\ asyncThreadCount = 0
            /\ reporter.pc \in {"loop", "sem_wait"}
            /\ \A s \in AsyncUnixSignals : signalCounts[s] = 0
            /\ SetOSState(restoreOldActions(OSState, UnixSignals))
            /\ asyncHandlerList' = SelectSeq(asyncHandlerList,
                                             LAMBDA r : r.portLib # portLibrary)
            /\ shutDownASynchReporter' = 0
            /\ wakeUpASyncReporter' = IF reporter.pc = "sem_wait" \/ J9ZOS390
                                      THEN wakeUpASyncReporter
                                      ELSE wakeUpASyncReporter + 1
            /\ reporter' = [ReporterIdle EXCEPT !.pc = "exit"]
            /\ signalTools' = destroySignalTools(signalTools) \ {"asynchSignalReporterThread"}
       ELSE UNCHANGED <<osVars, asyncHandlerList, shutDownASynchReporter,
                        wakeUpASyncReporter, reporter, signalTools>>
    /\ sig_shutdown' = [sig_shutdown EXCEPT ![portLibrary] = "omrsig_shutdown"]
    /\ lastCall' = [op |-> "shutdown", who |-> <<portLibrary>>, flags |-> {}, rc |-> 0,
                    last |-> last]
    /\ mark' = NoMark
    /\ UNCHANGED <<optVars, signalOptionsGlobal, asyncThreadCount, signalCounts, J9ZOS390, raisers,
                   syncVars, osOriginal, optionsCaller, shutdownCaller,
                   registrant, tally>>

(***************************************************************************)
(* SpecLife: port libraries start up and shut down in any order, and the   *)
(* attached ones install handlers in between.  The process starts with     *)
(* dispositions of its own.                                                *)
(***************************************************************************)
OriginalDispositions ==
    { [s \in UnixSignals |-> IF s \in {SIGSEGV, SIGHUP} THEN "appHandler" ELSE "SIG_IGN"] }

InitLife ==
    /\ NoOptimizer
    /\ osAction \in OriginalDispositions
    /\ oldActions = [s \in UnixSignals |-> [action |-> "zeroed", restore |-> 0]]
    /\ syncSignalsWithHandlers = {}
    /\ asyncSignalsWithHandlers = {}
    /\ syncSignalsWithMainHandlers = {}
    /\ asyncSignalsWithMainHandlers = {}
    /\ signalOptionsGlobal = {}
    /\ asyncHandlerList = <<>>
    /\ asyncThreadCount = 0
    /\ signalCounts = [s \in AsyncUnixSignals |-> 0]
    /\ wakeUpASyncReporter = 0
    /\ shutDownASynchReporter = 0
    /\ J9ZOS390 = FALSE
    /\ reporter = [ReporterIdle EXCEPT !.pc = "exit"]
    /\ raisers = [s \in AsyncUnixSignals |-> 0]
    /\ frames = <<>>
    /\ tlsKey = NULL
    /\ tlsKeyCurrentSignal = {}
    /\ ctl = <<>>
    /\ procState = "running"
    /\ attachedPortLibraries = 0
    /\ signalTools = {}
    /\ sig_shutdown = [p \in PortLibs |-> "omrsig_shutdown"]
    /\ osOriginal = osAction
    /\ optionsCaller = [pc |-> "idle", options |-> {}]
    /\ shutdownCaller = [pc |-> "idle", portLibrary |-> "none"]
    /\ registrant = NoRegistrant
    /\ lastCall = NoCall
    /\ mark = NoMark
    /\ tally = NoTally

\* the OS accepts every installation, refuses every sigaction, refuses the
\* sigaction for SIGHUP only, or refuses to unblock SIGSEGV
AllRefused == [b \in DOMAIN AllOk |-> [sigaction |-> FALSE, unblock |-> TRUE]]
LifeOSResults ==
    { AllOk, AllRefused,
      [AllOk EXCEPT !["HUP"] = [sigaction |-> FALSE, unblock |-> TRUE]],
      [AllOk EXCEPT !["SEGV"] = [sigaction |-> TRUE, unblock |-> FALSE]] }

LifeSyncFlags == { {}, OMRPORT_SIG_FLAG_SIGSEGV }
LifeAsyncFlags == { OMRPORT_SIG_FLAG_SIGTERM, OMRPORT_SIG_FLAG_SIGTERM \cup OMRPORT_SIG_FLAG_SIGHUP }
LifeSingleFlags == { OMRPORT_SIG_FLAG_SIGTERM }
LifeOSFlags == { OMRPORT_SIG_FLAG_SIGSEGV, OMRPORT_SIG_FLAG_SIGTERM }
LifeClients == {<<"p1", "h1", "a1">>}

\* a port library can call the dispatcher once its startup has succeeded; the
\* calls enter monitors and read thread-local keys, which must exist
LifeCallable(portLibrary) ==
    /\ sig_shutdown[portLibrary] = "sig_full_shutdown"
    /\ {"tlsKey", "tlsKeyCurrentSignal", "registerHandlerMonitor", "asyncMonitor"}
           \subseteq signalTools

\* no step fails, or the last step (the creation of the reporter thread) fails
FailPoints == {0, Len(ToolSteps(FALSE))}

LifeStartup ==
    \E p \in PortLibs, failAt \in FailPoints : omrsig_startup(p, failAt)
LifeShutdown ==
    /\ ctl = <<>>
    /\ \E p \in PortLibs : sig_full_shutdown(p) \/ omrsig_shutdown(p)
LifeProtect ==
    /\ Len(frames) < MaxEntryFrames
    /\ \E p \in PortLibs : LifeCallable(p)
    /\ \E f \in LifeSyncFlags, osr \in LifeOSResults : omrsig_protect(f, osr)
LifeSetAsync ==
    \E c \in LifeClients, f \in LifeAsyncFlags, osr \in LifeOSResults :
        /\ LifeCallable(c[1])
        /\ \E record \in FirstFit(asyncHandlerList, c, f) :
               omrsig_set_async_signal_handler(c[1], c[2], c[3], f, record, osr)
LifeSetSingleAsync ==
    \E c \in LifeClients, f \in LifeSingleFlags :
        /\ LifeCallable(c[1])
        /\ \E record \in FirstFit(asyncHandlerList, c, f) :
               omrsig_set_single_async_signal_handler(c[1], c[2], c[3], f, record, AllOk)
LifeRegisterOSHandler ==
    /\ \E p \in PortLibs : LifeCallable(p)
    /\ \E f \in LifeOSFlags, osr \in LifeOSResults :
           omrsig_register_os_handler(f, "userHandler", osr)

NextLife ==
    \/ LifeStartup
    \/ LifeShutdown
    \/ LifeProtect
    \/ FnReturn
    \/ LifeSetAsync
    \/ LifeSetSingleAsync
    \/ LifeRegisterOSHandler

SpecLife == InitLife /\ [][NextLife]_vars

SignalBitsOf(mask) == mask \ OMRPORT_SIG_FLAG_CONTROL_BITS_MASK

NoPortLibraryStarted == \A p \in PortLibs : sig_shutdown[p] = "omrsig_shutdown"

\* C11: the disposition a signal had before the library first installed a
\* handler for it is saved once (it is what oldActions holds as long as the
\* entry is marked for restoring), and once the last started port library has
\* shut down the OS reports that disposition for every signal and the four
\* handler bitmasks hold no signal bit, whatever was installed in between.
C11_RestoredAfterLastShutdown ==
    [][ /\ \A s \in UnixSignals :
              oldActions'[s].restore # 0 => oldActions'[s].action = osOriginal[s]
        /\ (lastCall'.op = "shutdown" /\ NoPortLibraryStarted')
              => /\ osAction' = osOriginal
                 /\ SignalBitsOf(syncSignalsWithHandlers') = {}
                 /\ SignalBitsOf(asyncSignalsWithHandlers') = {}
                 /\ SignalBitsOf(syncSignalsWithMainHandlers') = {}
                 /\ SignalBitsOf(asyncSignalsWithMainHandlers') = {} ]_vars

\* the unix signal of a signal bit, and the signal bits a registration covers
UnixOf(b) == CHOOSE s \in UnixSignals : b \in mapOSSignalToPortLib(s, "NULL")
CoveredSync(flags) == (flags \cap OMRPORT_SIG_FLAG_SIGALLSYNC) \ OMRPORT_SIG_FLAG_CONTROL_BITS_MASK
CoveredAsync(flags) == (flags \cap OMRPORT_SIG_FLAG_SIGALLASYNC) \ OMRPORT_SIG_FLAG_CONTROL_BITS_MASK
RecordedSync(b) == ({b} \cup OMRPORT_SIG_FLAG_IS_SYNC) \subseteq syncSignalsWithMainHandlers
RecordedAsync(b) == ({b} \cup OMRPORT_SIG_FLAG_IS_ASYNC) \subseteq asyncSignalsWithMainHandlers

\* C12: a startup installs nothing; a protect or async registration that
\* succeeds leaves the main handler of its kind installed and recorded for
\* every signal its flags cover; a registration whose covered signals are all
\* recorded already makes no installation (the OS state stays as it is, and
\* the call cannot fail on an OS refusal); protect with flags = 0 runs fn and
\* installs nothing; and every recorded signal has the one main handler of
\* its kind installed.
C12_InstallStateMachine ==
    /\ [][ /\ lastCall'.op = "startup"
              => UNCHANGED <<osAction, syncSignalsWithHandlers, asyncSignalsWithHandlers,
                             syncSignalsWithMainHandlers, asyncSignalsWithMainHandlers>>
           /\ lastCall'.op = "protect_fn"
              => /\ \A b \in CoveredSync(lastCall'.flags) :
                        /\ osAction'[UnixOf(b)] = "mainSynchSignalHandler"
                        /\ RecordedSync(b)'
                 /\ lastCall'.flags = {} => UNCHANGED osVars
           /\ (lastCall'.op \in {"set_async", "set_single_async"} /\ lastCall'.rc = 0)
              => \A b \in CoveredAsync(lastCall'.flags) :
                        /\ osAction'[UnixOf(b)] = "mainASynchSignalHandler"
                        /\ RecordedAsync(b)'
           /\ (lastCall'.op \in {"protect_fn", "protect_rejected"}
               /\ \A b \in CoveredSync(lastCall'.flags) : RecordedSync(b))
              => (lastCall'.op = "protect_fn" /\ UNCHANGED osVars)
           /\ (lastCall'.op \in {"set_async", "set_single_async"}
               /\ \A b \in CoveredAsync(lastCall'.flags) : RecordedAsync(b))
              => UNCHANGED osVars ]_vars
    /\ [](\A b \in {SignalBits[i] : i \in DOMAIN SignalBits} :
             /\ RecordedSync(b) => osAction[UnixOf(b)] = "mainSynchSignalHandler"
             /\ RecordedAsync(b) => osAction[UnixOf(b)] = "mainASynchSignalHandler"
             /\ ~(RecordedSync(b) /\ RecordedAsync(b)))

\* a registration for SIGTERM succeeded although SIGTERM and SIGHUP had their
\* main handler from an earlier registration of the same client, while a
\* protect for SIGSEGV was in progress
C12_Witness ==
    /\ lastCall.op = "set_async"
    /\ lastCall.rc = 0
    /\ lastCall.flags = OMRPORT_SIG_FLAG_SIGTERM
    /\ asyncHandlerList # <<>>
    /\ "HUP" \in asyncHandlerList[1].flags
    /\ osAction[SIGTERM] = "mainASynchSignalHandler"
    /\ osAction[SIGHUP] = "mainASynchSignalHandler"
    /\ frames # <<>>
    /\ osAction[SIGSEGV] = "mainSynchSignalHandler"

(***************************************************************************)
(* SpecOptions: one thread calls omrsig_set_options while another thread   *)
(* protects and registers.  omrsig_set_options looks at the handler        *)
(* bitmasks inside registerHandlerMonitor and stores into                  *)
(* signalOptionsGlobal after it has left the monitor, so the call takes    *)
(* two steps; omrsig_protect and the async registration read               *)
(* signalOptionsGlobal without a monitor.                                  *)
(***************************************************************************)
omrsig_set_options_check(options) ==
    LET reduced == OMR_ARE_ANY_BITS_SET(options,
                       OMRPORT_SIG_OPTIONS_REDUCED_SIGNALS_SYNCHRONOUS
                       \cup OMRPORT_SIG_OPTIONS_REDUCED_SIGNALS_ASYNCHRONOUS)
        anyHandlersInstalled == syncSignalsWithHandlers # {} \/ asyncSignalsWithHandlers # {}
    IN
    /\ procState = "running"
    /\ optionsCaller.pc = "idle"
    /\ IF reduced /\ anyHandlersInstalled
       THEN /\ lastCall' = [op |-> "set_options", who |-> <<>>, flags |-> options, rc |-> -1]
            /\ UNCHANGED optionsCaller
       ELSE /\ optionsCaller' = [pc |-> "merge", options |-> options]
            /\ UNCHANGED lastCall
    /\ UNCHANGED <<optVars, attachedPortLibraries, signalTools, sig_shutdown, osOriginal, osVars,
                   shutdownCaller, registrant,
                   signalOptionsGlobal, asyncHandlerList, reporterVars, syncVars, mark, tally>>

omrsig_set_options_merge ==
    /\ procState = "running"
    /\ optionsCaller.pc = "merge"
    /\ signalOptionsGlobal' = signalOptionsGlobal \cup optionsCaller.options
    /\ optionsCaller' = [pc |-> "idle", options |-> {}]
    /\ lastCall' = [op |-> "set_options", who |-> <<>>, flags |-> optionsCaller.options,
                    rc |-> 0]
    /\ UNCHANGED <<optVars, attachedPortLibraries, signalTools, sig_shutdown, osOriginal, osVars,
                   shutdownCaller, registrant,
                   asyncHandlerList, reporterVars, syncVars, mark, tally>>

OptionInputs ==
    { OMRPORT_SIG_OPTIONS_REDUCED_SIGNALS_SYNCHRONOUS,
      OMRPORT_SIG_OPTIONS_REDUCED_SIGNALS_ASYNCHRONOUS,
      OMRPORT_SIG_OPTIONS_SIGXFSZ }

SetOptionsCheck == \E o \in OptionInputs : omrsig_set_options_check(o)

NextOptions ==
    \/ SetOptionsCheck
    \/ omrsig_set_options_merge
    \/ ProtectCall
    \/ FnReturn
    \/ SetAsyncCall

SpecOptions == Init /\ [][NextOptions]_vars

ReducedSignalsBits ==
    OMRPORT_SIG_OPTIONS_REDUCED_SIGNALS_SYNCHRONOUS
    \cup OMRPORT_SIG_OPTIONS_REDUCED_SIGNALS_ASYNCHRONOUS

\* C13: a set_options call that asks for a reduced-signals bit while a sync or
\* async handler is installed returns -1 and leaves the options as they are;
\* every other call ORs its mask into the options; and a reduced-signals bit
\* is never added to the options while a handler is installed, whatever a
\* concurrent protect or async registration does in between.
C13_OptionsBeforeHandlers ==
    [][ /\ (lastCall'.op = "set_options" /\ lastCall' # lastCall /\ lastCall'.rc # 0)
           => /\ UNCHANGED signalOptionsGlobal
              /\ OMR_ARE_ANY_BITS_SET(lastCall'.flags, ReducedSignalsBits)
        /\ signalOptionsGlobal' # signalOptionsGlobal
           => /\ lastCall'.op = "set_options" /\ lastCall'.rc = 0
              /\ signalOptionsGlobal' = signalOptionsGlobal \cup lastCall'.flags
        /\ (ReducedSignalsBits \cap signalOptionsGlobal') # (ReducedSignalsBits \cap signalOptionsGlobal)
           => (syncSignalsWithHandlers = {} /\ asyncSignalsWithHandlers = {}) ]_vars

(***************************************************************************)
(* SpecXrs: options are set while no handler is installed, then async      *)
(* handlers are registered for SIGTERM, SIGXFSZ, both, or no signal.       *)
(***************************************************************************)
XrsFlagInputs ==
    { {}, OMRPORT_SIG_FLAG_SIGTERM, OMRPORT_SIG_FLAG_SIGXFSZ,
      OMRPORT_SIG_FLAG_SIGTERM \cup OMRPORT_SIG_FLAG_SIGXFSZ }

XrsSetOptions ==
    \E o \in {OMRPORT_SIG_OPTIONS_REDUCED_SIGNALS_ASYNCHRONOUS, OMRPORT_SIG_OPTIONS_SIGXFSZ} :
        omrsig_set_options(o)
XrsSetAsync ==
    \E f \in XrsFlagInputs : \E record \in FirstFit(asyncHandlerList, EntryClient, f) :
        omrsig_set_async_signal_handler(EntryClient[1], EntryClient[2], EntryClient[3],
                                        f, record, AllOk)
XrsSetSingleAsync ==
    \E f \in XrsFlagInputs : \E record \in FirstFit(asyncHandlerList, EntryClient, f) :
        omrsig_set_single_async_signal_handler(EntryClient[1], EntryClient[2],
                                               EntryClient[3], f, record, AllOk)

NextXrs == XrsSetOptions \/ XrsSetAsync \/ XrsSetSingleAsync

SpecXrs == Init /\ [][NextXrs]_vars

XrsAsync ==
    OMR_ARE_ANY_BITS_SET(signalOptionsGlobal, OMRPORT_SIG_OPTIONS_REDUCED_SIGNALS_ASYNCHRONOUS)
XfszAllowed(flags) ==
    /\ OMR_ARE_ALL_BITS_SET(flags, OMRPORT_SIG_FLAG_SIGXFSZ)
    /\ OMR_ARE_ANY_BITS_SET(signalOptionsGlobal, OMRPORT_SIG_OPTIONS_SIGXFSZ)
\* the signals the record at address a covers in list
CoveredAt(list, a) ==
    UNION {CoveredAsync(list[i].flags) : i \in {j \in DOMAIN list : list[j].addr = a}}

\* C14: while REDUCED_SIGNALS_ASYNCHRONOUS is set, an async registration that
\* is not for SIGXFSZ with the SIGXFSZ option set returns ERROR and changes
\* neither the installed handlers nor the handler list; and no registration
\* installs the main async handler for a signal other than SIGXFSZ or makes a
\* record cover a signal other than SIGXFSZ that it did not cover before.
C14_XrsAsyncOnlyXfsz ==
    [][ (lastCall'.op \in {"set_async", "set_single_async"} /\ XrsAsync)
        => /\ ~XfszAllowed(lastCall'.flags)
              => /\ lastCall'.rc = OMRPORT_SIG_ERROR
                 /\ UNCHANGED <<osVars, asyncHandlerList>>
           /\ \A s \in UnixSignals \ {SIGXFSZ} : osAction'[s] = osAction[s]
           /\ \A a \in UsedAddrs(asyncHandlerList') :
                  CoveredAt(asyncHandlerList', a)
                      \subseteq (CoveredAt(asyncHandlerList, a) \cup {"XFSZ"}) ]_vars

\* C15: when the OS refuses a sigaction or an unblocking during protect,
\* setAsyncSignalHandler, setSingleAsyncSignalHandler or registerOSHandler,
\* the call returns ERROR and the installed OS handlers, the four handler
\* bitmasks and the dispositions saved for restoring are what they were
\* before the call, also when the request covered several signals.  (A call
\* with unambiguous flags that needs no new record can only fail on the OS.)
C15_RefusalLeavesNoTrace ==
    [][ (/\ lastCall'.rc = OMRPORT_SIG_ERROR
         /\ ~AmbiguousFlags(lastCall'.flags)
         /\ \/ lastCall'.op \in {"protect_rejected", "register_os_handler"}
            \/ /\ lastCall'.op \in {"set_async", "set_single_async"}
               /\ Matches(asyncHandlerList, lastCall'.who[1], lastCall'.who[2],
                          lastCall'.who[3]) # {})
        => /\ UNCHANGED <<osAction, syncSignalsWithHandlers, asyncSignalsWithHandlers,
                          syncSignalsWithMainHandlers, asyncSignalsWithMainHandlers>>
           /\ \A s \in UnixSignals :
                  /\ oldActions'[s].restore = oldActions[s].restore
                  /\ oldActions[s].restore # 0
                         => oldActions'[s].action = oldActions[s].action ]_vars

\* C16: a registration that needs a new record (its triple has none, flags
\* are not 0) and gets none from the allocator returns ERROR and leaves the
\* async handler list as it was: the same records in the same order, each
\* with the flags it had before the call.
C16_AllocationFailureKeepsList ==
    [][ (/\ lastCall'.op \in {"set_async", "set_single_async"}
         /\ lastCall'.rc = OMRPORT_SIG_ERROR
         /\ ~AmbiguousFlags(lastCall'.flags)
         /\ Allocates(asyncHandlerList, lastCall'.who, lastCall'.flags))
        => UNCHANGED asyncHandlerList ]_vars

\* the frame whose callback the thread is executing, 0 if it executes none
RunningCallback == IF ctl # <<>> /\ Top(ctl).kind = "cb" THEN Top(ctl).frame ELSE 0

\* C17: while the thread executes the callback of a frame, the top of its
\* handler stack is the predecessor of that frame, so that a signal raised by
\* the callback is offered to outer frames only.
C17_TopIsPredecessor ==
    RunningCallback # 0 => tlsKey = frames[RunningCallback].previous

\* the records on the handler stack from record i downwards
RECURSIVE ChainFrom(_)
ChainFrom(i) == IF i = NULL THEN {} ELSE {i} \cup ChainFrom(frames[i].previous)

\* record i accepts signals of the category type (the SIGFPE variants count
\* as SIGFPE)
Accepts(i, type) ==
    IF OMRPORT_SIG_FLAG_SIGFPE \subseteq type
    THEN OMRPORT_SIG_FLAG_SIGFPE \subseteq frames[i].flags
    ELSE type \subseteq frames[i].flags

ToolsInitialised == signalTools = SignalTools(J9ZOS390)

\* C19: over all sequences of startup and shutdown calls, a first startup
\* that fails in initializeSignalTools included: the tools of the dispatcher
\* are set up only by the startup that takes the attach count from 0 to 1 and
\* torn down exactly by the shutdown that takes it back to 0, and a startup
\* that reports success leaves the tools initialised.
C19_AttachCounting ==
    [][ /\ lastCall'.op = "startup"
           => /\ signalTools' # signalTools => attachedPortLibraries = 0
              /\ lastCall'.rc = 0 => ToolsInitialised'
        /\ lastCall'.op = "shutdown"
           => /\ (attachedPortLibraries' = 0) <=> (ToolsInitialised /\ signalTools' = {})
              /\ attachedPortLibraries' # 0 => UNCHANGED signalTools
        /\ signalTools' # signalTools => lastCall'.op \in {"startup", "shutdown"} ]_vars

\* the value omrsig_get_current_signal returns on the thread: 0 (no bit) when
\* the cell is NULL, else the portLibSignalType of the OMRCurrentSignal in it
omrsig_get_current_signal == IF tlsKeyCurrentSignal = {} THEN {} ELSE tlsKeyCurrentSignal

\* the dispatches in progress on the thread, outermost first
DispatchesInProgress == SelectSeq(ctl, LAMBDA a : a.kind = "cb")

MaxOptimizers == 2
MaxNodeCount == 1
MaxSymRefCount == 1
MaxOptIndex == 100
\* the nested calls of performOptimization for groups that the native stack
\* has room for
MaxGroupDepth == 3

\* the primitive optimizations of the model (ids below numOpts)
PrimitiveOpts == {"treeSimplification", "basicBlockPeepHole", "localCSE", "localDeadStoreElimination", "rematerialization", "compactNullChecks", "deadTreesElimination", "globalValuePropagation", "globalCopyPropagation", "inductionVariableAnalysis", "localValuePropagation"}

\* the groups of the model (ids above numOpts)
GroupOpts == {"eachLocalAnalysisPassGroup", "localValuePropagationGroup", "methodHandleInvokeInliningGroup"}

Opts == PrimitiveOpts \cup GroupOpts

\* optNum > OMR::numOpts
IsGroup(optNum) == optNum \in GroupOpts

\* an entry {num, options} of a strategy; options defaults to Always
Entry(num, options) == [num |-> num, options |-> options]

localValuePropagationOpts == << Entry("treeSimplification", "Always"), Entry("basicBlockPeepHole", "IfEnabled") >>

eachLocalAnalysisPassOpts == << Entry("localValuePropagationGroup", "IfEnabled"), Entry("treeSimplification", "IfEnabled"), Entry("localCSE", "IfEnabled"), Entry("localDeadStoreElimination", "IfEnabled"), Entry("rematerialization", "IfEnabled"), Entry("compactNullChecks", "IfEnabled"), Entry("deadTreesElimination", "IfEnabled") >>

\* a group that lists itself: "Repeat as required to inline all the
\* MethodHandle.invoke calls we can afford" (targetedInlining is there only
\* when J9_PROJECT_SPECIFIC is defined)
methodHandleInvokeInliningOpts == << Entry("treeSimplification", "Always"), Entry("localCSE", "Always"), Entry("localValuePropagation", "Always"), Entry("deadTreesElimination", "Always"), Entry("methodHandleInvokeInliningGroup", "IfEnabled") >>

\* manager->groupOfOpts(): the body of a group, without its endGroup
groupOfOpts(optNum) ==
    CASE optNum = "eachLocalAnalysisPassGroup" -> eachLocalAnalysisPassOpts
      [] optNum = "methodHandleInvokeInliningGroup" -> methodHandleInvokeInliningOpts
      [] OTHER -> localValuePropagationOpts

MAX_LOCAL_OPTS_ITERS == 5

\* the capability flags the manager of each optimization declares
Capabilities(optNum) ==
    CASE optNum = "globalValuePropagation" -> {"requiresStructure", "requiresGlobalsUseDefInfo", "requiresGlobalsValueNumbering"}
      [] optNum = "globalCopyPropagation" -> {"requiresUseDefInfo", "maintainsUseDefInfo", "doesNotRequireLoadsAsDefsInUseDefs"}
      [] optNum = "inductionVariableAnalysis" -> {"requiresStructure"}
      [] optNum = "deadTreesElimination" -> {"doesNotRequireAliasSets", "maintainsUseDefInfo"}
      [] optNum = "localCSE" -> {"requiresValueNumbering"}
      [] OTHER -> {}

\* the blocks of the method: the start block of the flow graph and two others
Blocks == {"start", "b1", "b2"}

\* a block argument of NULL asks for the whole method
NullBlock == "NULL"

\* OptimizationManager::setRequested(requested, block): the requested flag
\* and the list of requested blocks of one manager
setRequested(manager, requested, block, canRunBlockByBlock) ==
    IF requested
    THEN [manager EXCEPT !.requested = TRUE,
                         !.requestedBlocks = IF canRunBlockByBlock
                                             THEN @ \cup {IF block = NullBlock THEN "start" ELSE block}
                                             ELSE @]
    ELSE [manager EXCEPT !.requested = FALSE, !.requestedBlocks = {}]

\* the manager of an optimization when the optimizer is constructed
NewManager == [requested |-> FALSE, lastRun |-> FALSE, requestedBlocks |-> {}, enabled |-> TRUE]

\* a cache that holds nothing (NULL)
NoInfo == [built |-> FALSE]

\* the fields of an OMR::Optimizer after its constructor
NewOptimizer(isIlGen, strategy) ==
    [ isIlGen |-> isIlGen,
      strategy |-> strategy,
      opts |-> [n \in Opts |-> NewManager],
      symReferencesTable |-> NoInfo,
      useDefInfo |-> NoInfo,
      valueNumberInfo |-> NoInfo,
      aliasSetsAreValid |-> FALSE,
      cantBuildGlobalsUseDefInfo |-> FALSE,
      cantBuildLocalsUseDefInfo |-> FALSE,
      cantBuildGlobalsValueNumberInfo |-> FALSE,
      cantBuildLocalsValueNumberInfo |-> FALSE,
      canRunBlockByBlockOptimizations |-> TRUE,
      stackedOptimizer |-> FALSE ]

\* OMR::Optimizer::setRequestOptimization(opt, value, block)
setRequestOptimization(optimizer, opt, value, block) ==
    [optimizer EXCEPT !.opts[opt] = setRequested(@, value, block, optimizer.canRunBlockByBlockOptimizations)]

\* OMR::Optimizer::setUseDefInfo and setValueNumberInfo: the old info is
\* deleted and the new one (or NULL) is cached
setUseDefInfo(optimizer, u) == [optimizer EXCEPT !.useDefInfo = u]

setValueNumberInfo(optimizer, v) == [optimizer EXCEPT !.valueNumberInfo = v]

setSymReferencesTable(optimizer, t) == [optimizer EXCEPT !.symReferencesTable = t]

setAliasSetsAreValid(optimizer, b) == [optimizer EXCEPT !.aliasSetsAreValid = b]

\* the result of the switch on optimization->_options
Guard(do, ifEnabled, must, last) == [doThisOptimization |-> do, doThisOptimizationIfEnabled |-> ifEnabled, mustBeDone |-> must, justSetLastRun |-> last]

GuardOptions == {"Always", "IfLoops", "IfNoLoops", "IfLoopsMarkLastRun", "IfEnabled", "IfEnabledAndLoops", "IfEnabledAndNoLoops", "IfNoLoopsOREnabledAndLoops", "IfEnabledMarkLastRun", "MustBeDone", "MarkLastRun"}

evaluateGuard(options, requested, mayHaveLoops) ==
    CASE options = "Always" -> Guard(TRUE, FALSE, FALSE, FALSE)
      [] options = "IfLoops" -> Guard(mayHaveLoops, FALSE, FALSE, FALSE)
      [] options = "IfNoLoops" -> Guard(~mayHaveLoops, FALSE, FALSE, FALSE)
      [] options = "IfLoopsMarkLastRun" -> Guard(mayHaveLoops, FALSE, FALSE, TRUE)
      [] options = "IfEnabled" -> Guard(requested, requested, FALSE, FALSE)
      [] options = "IfEnabledAndLoops" -> Guard(mayHaveLoops /\ requested, mayHaveLoops /\ requested, FALSE, FALSE)
      [] options = "IfEnabledAndNoLoops" -> Guard(~mayHaveLoops /\ requested, ~mayHaveLoops /\ requested, FALSE, FALSE)
      [] options = "IfNoLoopsOREnabledAndLoops" -> Guard(~mayHaveLoops \/ requested, (~mayHaveLoops \/ requested) /\ mayHaveLoops, FALSE, FALSE)
      [] options = "IfEnabledMarkLastRun" -> Guard(requested, requested, FALSE, TRUE)
      [] options = "MustBeDone" -> Guard(TRUE, FALSE, TRUE, FALSE)
      [] options = "MarkLastRun" -> Guard(TRUE, FALSE, FALSE, TRUE)

\* doThisOptimization after "if (doThisOptimizationIfEnabled &&
\* manager->getRequestedBlocks()->isEmpty()) doThisOptimization = false"
doThisOptimization(guard, manager) ==
    guard.doThisOptimization /\ ~(guard.doThisOptimizationIfEnabled /\ manager.requestedBlocks = {})

\* ---- materialization of the analyses a pass declares (performOptimization)

RequiresUseDefInfo(caps) == caps \cap {"requiresUseDefInfo", "requiresGlobalsUseDefInfo"} # {}

RequiresValueNumbering(caps) == caps \cap {"requiresValueNumbering", "requiresGlobalsValueNumbering"} # {}

\* manager->getRequiresStructure() after "if (getRequiresUseDefInfo() ||
\* getRequiresValueNumbering()) manager->setRequiresStructure(true)"
RequiresStructure(caps) == "requiresStructure" \in caps \/ RequiresUseDefInfo(caps) \/ RequiresValueNumbering(caps)

needsAliasBuild(optimizer, caps) == ~optimizer.aliasSetsAreValid /\ "doesNotRequireAliasSets" \notin caps

buildAliasInfo(optimizer, caps) ==
    IF needsAliasBuild(optimizer, caps) THEN setAliasSetsAreValid(optimizer, TRUE) ELSE optimizer

\* the three tests that drop a cached use-def info of the wrong kind
dropsUseDefInfo(optimizer, caps) ==
    /\ optimizer.useDefInfo.built
    /\ \/ /\ "stronglyPrefersGlobalsValueNumbering" \in caps
          /\ ~optimizer.useDefInfo.hasGlobalsUseDefs
          /\ ~optimizer.cantBuildGlobalsUseDefInfo
       \/ "doesNotRequireLoadsAsDefsInUseDefs" \in caps /\ optimizer.useDefInfo.hasLoadsAsDefs
       \/ "doesNotRequireLoadsAsDefsInUseDefs" \notin caps /\ ~optimizer.useDefInfo.hasLoadsAsDefs

invalidateUseDefInfo_Always(optimizer, caps) == setUseDefInfo(optimizer, NoInfo)

invalidateUseDefInfo(optimizer, caps) ==
    IF dropsUseDefInfo(optimizer, caps) THEN setUseDefInfo(optimizer, NoInfo) ELSE optimizer

RequiresGlobalsUseDefs(caps) == caps \cap {"requiresGlobalsUseDefInfo", "requiresGlobalsValueNumbering"} # {}

\* "global" or "local" when createUseDefInfo is called for the pass, else "none"
useDefBuild(optimizer, caps) ==
    IF RequiresGlobalsUseDefs(caps)
    THEN IF /\ ~optimizer.cantBuildGlobalsUseDefInfo
            /\ (~optimizer.useDefInfo.built \/ ~optimizer.useDefInfo.hasGlobalsUseDefs)
         THEN "global" ELSE "none"
    ELSE IF RequiresUseDefInfo(caps) \/ RequiresValueNumbering(caps)
         THEN IF ~optimizer.cantBuildLocalsUseDefInfo /\ ~optimizer.useDefInfo.built
              THEN "local" ELSE "none"
         ELSE "none"

\* what a new TR_UseDefInfo can turn out to be: valid or not, and when it is
\* not, whether the build marked this flavour as impossible to build
UseDefBuilds == { [valid |-> TRUE, cantBuild |-> FALSE], [valid |-> FALSE, cantBuild |-> FALSE], [valid |-> FALSE, cantBuild |-> TRUE] }

\* the constructor of TR_UseDefInfo, which is handed the optimizer: value
\* numbers rest on the use-def info they were built from and are invalidated
\* when use-def info is built anew
TR_UseDefInfo_KeepsValueNumbers(optimizer) == optimizer

TR_UseDefInfo(optimizer) == setValueNumberInfo(optimizer, NoInfo)

\* createUseDefInfo and "if (useDefInfo->infoIsValid()) setUseDefInfo(useDefInfo)
\* else delete useDefInfo"
buildUseDefInfo_Discard(optimizer, caps, ud) == optimizer

buildUseDefInfo(optimizer, caps, ud) ==
    LET flavour == useDefBuild(optimizer, caps)
        info == [built |-> TRUE, hasGlobalsUseDefs |-> flavour = "global" \/ caps \cap {"prefersGlobalsUseDefInfo", "prefersGlobalsValueNumbering"} # {},
                 hasLoadsAsDefs |-> "doesNotRequireLoadsAsDefsInUseDefs" \notin caps]
        created == TR_UseDefInfo(optimizer)
    IN  IF flavour = "none" THEN optimizer
        ELSE IF ud.valid THEN setUseDefInfo(created, info)
        ELSE IF ~ud.cantBuild THEN created
        ELSE IF flavour = "global" THEN [created EXCEPT !.cantBuildGlobalsUseDefInfo = TRUE]
        ELSE [created EXCEPT !.cantBuildLocalsUseDefInfo = TRUE]

valueNumberBuild(optimizer, caps) ==
    IF "requiresGlobalsValueNumbering" \in caps
    THEN IF /\ ~optimizer.cantBuildGlobalsValueNumberInfo
            /\ (~optimizer.valueNumberInfo.built \/ ~optimizer.valueNumberInfo.hasGlobalsValueNumbers)
         THEN "global" ELSE "none"
    ELSE IF "requiresValueNumbering" \in caps
         THEN IF ~optimizer.cantBuildLocalsValueNumberInfo /\ ~optimizer.valueNumberInfo.built
              THEN "local" ELSE "none"
         ELSE "none"

\* createValueNumberInfo and "if (valueNumberInfo->infoIsValid())
\* setValueNumberInfo(valueNumberInfo)"
buildValueNumberInfo(optimizer, caps, valid) ==
    LET flavour == valueNumberBuild(optimizer, caps)
        info == [built |-> TRUE, hasGlobalsValueNumbers |-> flavour = "global" \/ "prefersGlobalsValueNumbering" \in caps]
    IN  IF flavour # "none" /\ valid THEN setValueNumberInfo(optimizer, info) ELSE optimizer

\* the cost the builds add to actualCost
buildCost(alias, useDefs, valueNumbers) ==
    (IF alias THEN 1 ELSE 0) + (IF useDefs # "none" THEN 10 ELSE 0) + (IF valueNumbers # "none" THEN 10 ELSE 0)

\* ---- the check of the size of the method (checkNumberOfLoopsAndBasicBlocks)

\* the thresholds, which are defined outside this file: small values that
\* keep their order (the very-hot loop count is the higher one)
HIGH_BASIC_BLOCK_COUNT == 4
HIGH_LOOP_COUNT == 2
VERY_HOT_HIGH_LOOP_COUNT == HIGH_LOOP_COUNT + 1

highBasicBlockCount == IF compilation.isOptServer THEN HIGH_BASIC_BLOCK_COUNT * 2 ELSE HIGH_BASIC_BLOCK_COUNT

highLoopCount ==
    LET count == IF compilation.veryHot THEN VERY_HOT_HIGH_LOOP_COUNT ELSE HIGH_LOOP_COUNT
    IN  IF compilation.isOptServer THEN count * 2 ELSE count

checkNumberOfLoopsAndBasicBlocks(numBlocks, numLoops) ==
    numBlocks >= highBasicBlockCount \/ numLoops >= highLoopCount

\* "if (manager->getRequiresStructure() && ...getStructure())
\* if (checkNumberOfLoopsAndBasicBlocks(...)) if (TR_ProcessHugeMethods) ...
\* else failCompilation<TR::ExcessiveComplexity>"
methodIsTooLarge(caps, numBlocks, numLoops) ==
    /\ RequiresStructure(caps)
    /\ checkNumberOfLoopsAndBasicBlocks(numBlocks, numLoops)
    /\ ~compilation.processHugeMethods

\* the sizes of the flow graph a pass that requires structure may find:
\* blocks or loops around each threshold, the other count small
CfgSizes ==
    { [numBlocks |-> b, numLoops |-> 0] : b \in {1, HIGH_BASIC_BLOCK_COUNT - 1, HIGH_BASIC_BLOCK_COUNT, HIGH_BASIC_BLOCK_COUNT + 1, 2 * HIGH_BASIC_BLOCK_COUNT - 1, 2 * HIGH_BASIC_BLOCK_COUNT} }
    \cup { [numBlocks |-> 1, numLoops |-> l] : l \in {HIGH_LOOP_COUNT - 1, HIGH_LOOP_COUNT, VERY_HOT_HIGH_LOOP_COUNT, VERY_HOT_HIGH_LOOP_COUNT + 1, 2 * HIGH_LOOP_COUNT, 2 * VERY_HOT_HIGH_LOOP_COUNT - 1, 2 * VERY_HOT_HIGH_LOOP_COUNT} }

\* ---- caches after the pass (performOptimization, after "delete opt")

\* "if (comp()->getNodeCount() > unsigned(origNodeCount))": nodes were added
invalidateOnNodeGrowth_KeepValueNumbers(optimizer, caps, origNodeCount, nodeCount) ==
    IF nodeCount > origNodeCount /\ "maintainsUseDefInfo" \notin caps THEN setUseDefInfo(optimizer, NoInfo) ELSE optimizer

invalidateOnNodeGrowth(optimizer, caps, origNodeCount, nodeCount) ==
    IF nodeCount > origNodeCount
    THEN IF "maintainsUseDefInfo" \notin caps
         THEN setUseDefInfo(setValueNumberInfo(optimizer, NoInfo), NoInfo)
         ELSE setValueNumberInfo(optimizer, NoInfo)
    ELSE optimizer

\* "if (comp()->getSymRefCount() != origSymRefCount)"
invalidateOnSymRefChange_KeepAliasSets(optimizer, origSymRefCount, symRefCount) ==
    IF symRefCount # origSymRefCount THEN setSymReferencesTable(optimizer, NoInfo) ELSE optimizer

invalidateOnSymRefChange(optimizer, origSymRefCount, symRefCount) ==
    IF symRefCount # origSymRefCount
    THEN setAliasSetsAreValid(setSymReferencesTable(optimizer, NoInfo), FALSE)
    ELSE optimizer

reconcileCaches(optimizer, caps, origNodeCount, nodeCount, origSymRefCount, symRefCount) ==
    invalidateOnSymRefChange(invalidateOnNodeGrowth(optimizer, caps, origNodeCount, nodeCount), origSymRefCount, symRefCount)

\* which caches of an optimizer hold something
Caches(optimizer) ==
    [ useDefInfo |-> optimizer.useDefInfo.built, valueNumberInfo |-> optimizer.valueNumberInfo.built,
      symReferencesTable |-> optimizer.symReferencesTable.built, aliasSetsAreValid |-> optimizer.aliasSetsAreValid ]

\* ---- the active calls

Self == Len(optimizers)

TopFrame == optStack[Len(optStack)]

\* comp()->isOutermostMethod(): false while an optimizer created for the
\* IL generation of another method runs its strategy
isOutermostMethod == Len(optimizers) = 1

OptimizeFrame(stackedOptimizer) == [kind |-> "optimize", pc |-> "call", pos |-> 1, stackedOptimizer |-> stackedOptimizer]

GroupFrame(optNum) == [kind |-> "group", pos |-> 1, optNum |-> optNum, numIters |-> 0]

PerformFrame(optNum, mode, blocks, actualCost) == [kind |-> "perform", optNum |-> optNum, mode |-> mode, blocks |-> blocks, origSymRefCount |-> compilation.symRefCount, origNodeCount |-> compilation.nodeCount, actualCost |-> actualCost]

\* the strategy or the group body the frame walks through
BodyOf(f) == IF f.kind = "optimize" THEN optimizers[Self].strategy ELSE groupOfOpts(f.optNum)

\* subGroup->_num is endGroup or endOpts
AtEnd(f) == f.pos > Len(BodyOf(f))

\* performOptimization has returned to the loop that called it: a group
\* does subGroup++, optimize goes on after the call
Advance(stack) ==
    [stack EXCEPT ![Len(stack)] = IF @.kind = "optimize" THEN [@ EXCEPT !.pc = "afterCall"] ELSE [@ EXCEPT !.pos = @ + 1]]

returnToCaller(stack) == Advance(Pop(stack))

Step(op, entry) == [NoStep EXCEPT !.op = op, !.optNum = entry.num, !.options = entry.options, !.optimizer = Self]

\* ---- OMR::Optimizer::optimize, up to the loop over the strategy
optimize ==
    /\ UNCHANGED dispatcherVars
    /\ optResult = "idle"
    /\ optimizers # <<>>
    /\ optStack = <<>>
    /\ optStack' = <<OptimizeFrame(compilation.optimizer)>>
    /\ optimizers' = [optimizers EXCEPT ![1].stackedOptimizer = (compilation.optimizer # 1)]
    /\ compilation' = [compilation EXCEPT !.optimizer = 1]
    /\ optResult' = "running"
    /\ optStep' = [NoStep EXCEPT !.op = "optimize", !.optimizer = 1]

\* the strategy of an optimizer created with isIlGen is ilgenStrategyOpts:
\* only endOpts unless J9_PROJECT_SPECIFIC is defined, and a list of passes
\* when it is, for which one pass stands here
IlGenStrategies == { <<>>, <<Entry("treeSimplification", "Always")>> }

\* a running pass generates the IL of another method: createOptimizer with
\* isIlGen on the same compilation, then optimize() of the new optimizer
genIL ==
    /\ UNCHANGED dispatcherVars
    /\ optResult = "running"
    /\ optStack # <<>>
    /\ TopFrame.kind = "perform"
    /\ TopFrame.mode # "none"
    /\ Len(optimizers) < MaxOptimizers
    /\ \E strategy \in IlGenStrategies :
          optimizers' = Append(optimizers, [NewOptimizer(TRUE, strategy) EXCEPT !.stackedOptimizer = TRUE])
    /\ optStack' = Append(optStack, OptimizeFrame(compilation.optimizer))
    /\ compilation' = [compilation EXCEPT !.optimizer = Self + 1]
    /\ optStep' = [NoStep EXCEPT !.op = "optimize", !.optimizer = Self + 1]
    /\ UNCHANGED optResult

\* the loop of optimize after performOptimization has returned: opt++ and
\* "if (!isIlGenOpt() && comp()->getNodePool().removeDeadNodes())
\* setValueNumberInfo(NULL)"
optimizeLoop ==
    /\ UNCHANGED dispatcherVars
    /\ optResult = "running"
    /\ optStack # <<>>
    /\ TopFrame.kind = "optimize"
    /\ TopFrame.pc = "afterCall"
    /\ \E removeDeadNodes \in (IF optimizers[Self].isIlGen THEN {FALSE} ELSE BOOLEAN) :
          /\ optimizers' = [optimizers EXCEPT ![Self] = IF removeDeadNodes THEN setValueNumberInfo(@, NoInfo) ELSE @]
          /\ optStep' = [NoStep EXCEPT !.op = "optimizeLoop", !.optimizer = Self, !.removeDeadNodes = removeDeadNodes]
    /\ optStack' = [optStack EXCEPT ![Len(optStack)].pc = "call", ![Len(optStack)].pos = @ + 1]
    /\ UNCHANGED <<compilation, optResult>>

\* the end of optimize: the hotness check, then
\* comp()->setOptimizer(stackedOptimizer)
optimizeReturn_KeepSelf(f) == [compilation EXCEPT !.optimizer = Self]

optimizeReturn(f) == [compilation EXCEPT !.optimizer = f.stackedOptimizer]

optimizeEnd ==
    /\ UNCHANGED dispatcherVars
    /\ optResult = "running"
    /\ optStack # <<>>
    /\ TopFrame.kind = "optimize"
    /\ TopFrame.pc = "call"
    /\ AtEnd(TopFrame)
    /\ \E needsHigherLevel \in (IF isOutermostMethod THEN BOOLEAN ELSE {FALSE}) :
          IF needsHigherLevel
          THEN /\ optResult' = "InsufficientlyAggressiveCompilation"
               /\ optStack' = <<>>
               /\ optStep' = [NoStep EXCEPT !.op = "failCompilation", !.optimizer = Self]
               /\ UNCHANGED <<optimizers, compilation>>
          ELSE /\ compilation' = optimizeReturn(TopFrame)
               /\ optStack' = Pop(optStack)
               /\ optimizers' = IF Self = 1
                                THEN [optimizers EXCEPT ![1].stackedOptimizer = FALSE]
                                ELSE Pop(optimizers)
               /\ optResult' = IF Len(optStack) = 1 THEN "returned" ELSE "running"
               /\ optStep' = [NoStep EXCEPT !.op = "optimizeReturn", !.optimizer = Self, !.stackedOptimizer = TopFrame.stackedOptimizer]

\* ---- OMR::Optimizer::performOptimization

\* "mustBeDone || (optIndex >= firstOptIndex && optIndex <= lastOptIndex)"
indexGate_AlwaysOpen(mustBeDone, optIndex) == TRUE

indexGate(mustBeDone, optIndex) ==
    mustBeDone \/ (optIndex >= compilation.firstOptIndex /\ optIndex <= compilation.lastOptIndex)

\* isEnabled(optNum) and the regular expression of the disabled optimizations
isEnabled(optimizer, optNum) == optimizer.opts[optNum].enabled /\ optNum \notin compilation.disabledOpts

\* which of perform and performOnBlock the pass is called through
dispatchMode(guard, manager, canRunBlockByBlock) ==
    IF ~guard.doThisOptimizationIfEnabled \/ "start" \in manager.requestedBlocks THEN "perform"
    ELSE IF canRunBlockByBlock THEN "performOnBlock"
    ELSE "none"

\* the calls of performOptimization for a group that have not returned
GroupDepth == Cardinality({i \in 1..Len(optStack) : optStack[i].kind = "group"})

\* the entry is a group and its guard holds: manager->setRequested(false)
\* and the loop over the body starts, each entry of the body through a
\* nested call of performOptimization; the native stack is exhausted when
\* the calls nest too deep
enterGroup_KeepsRequest(entry, marked) ==
    IF GroupDepth >= MaxGroupDepth
    THEN /\ optResult' = "StackOverflow"
         /\ optStack' = <<>>
         /\ optimizers' = [optimizers EXCEPT ![Self] = marked]
         /\ optStep' = [Step("stackOverflow", entry) EXCEPT !.doThisOptimization = TRUE, !.optIndex = compilation.optIndex]
         /\ UNCHANGED compilation
    ELSE /\ optimizers' = [optimizers EXCEPT ![Self] = marked]
         /\ optStack' = Append(optStack, GroupFrame(entry.num))
         /\ optStep' = [Step("enterGroup", entry) EXCEPT !.doThisOptimization = TRUE, !.optIndex = compilation.optIndex]
         /\ UNCHANGED <<compilation, optResult>>

enterGroup(entry, marked) ==
    IF GroupDepth >= MaxGroupDepth
    THEN /\ optResult' = "StackOverflow"
         /\ optStack' = <<>>
         /\ optimizers' = [optimizers EXCEPT ![Self] = marked]
         /\ optStep' = [Step("stackOverflow", entry) EXCEPT !.doThisOptimization = TRUE, !.optIndex = compilation.optIndex]
         /\ UNCHANGED compilation
    ELSE /\ optimizers' = [optimizers EXCEPT ![Self] = setRequestOptimization(marked, entry.num, FALSE, NullBlock)]
         /\ optStack' = Append(optStack, GroupFrame(entry.num))
         /\ optStep' = [Step("enterGroup", entry) EXCEPT !.doThisOptimization = TRUE, !.optIndex = compilation.optIndex]
         /\ UNCHANGED <<compilation, optResult>>

\* performOptimization returns before the pass is looked at any further
returnEarly_ClearsRequest(entry, marked, optIndex, reason, instantiated, lastRunBefore) ==
    /\ optimizers' = [optimizers EXCEPT ![Self] = setRequestOptimization(marked, entry.num, FALSE, NullBlock)]
    /\ optStack' = Advance(optStack)
    /\ optStep' = [Step("return", entry) EXCEPT !.doThisOptimization = (reason # "guard"), !.reason = reason, !.cost = 0,
                                                 !.instantiated = instantiated, !.optIndex = optIndex, !.lastRunBefore = lastRunBefore]
    /\ UNCHANGED optResult

returnEarly(entry, marked, optIndex, reason, instantiated, lastRunBefore) ==
    /\ optimizers' = [optimizers EXCEPT ![Self] = marked]
    /\ optStack' = Advance(optStack)
    /\ optStep' = [Step("return", entry) EXCEPT !.doThisOptimization = (reason # "guard"), !.reason = reason, !.cost = 0,
                                                 !.instantiated = instantiated, !.optIndex = optIndex, !.lastRunBefore = lastRunBefore]
    /\ UNCHANGED optResult

\* the analyses are there and the pass is called: perform, or
\* performOnBlock for the requested blocks that are still in the flow graph
invokePass(entry, guard, marked, built, optIndex, builds, lastRunBefore) ==
    \E mode \in {dispatchMode(guard, marked.opts[entry.num], marked.canRunBlockByBlockOptimizations)} :
    \E live \in (IF mode = "performOnBlock" THEN SUBSET marked.opts[entry.num].requestedBlocks ELSE {{}}) :
    \E asserts \in (IF lastRunBefore /\ ~guard.justSetLastRun /\ (mode = "perform" \/ live # {}) THEN BOOLEAN ELSE {FALSE}) :
       IF asserts
       THEN /\ optResult' = "TR_ASSERT"
            /\ optStack' = <<>>
            /\ optimizers' = [optimizers EXCEPT ![Self] = built]
            /\ optStep' = [Step("assert", entry) EXCEPT !.optIndex = optIndex, !.lastRunBefore = lastRunBefore]
       ELSE /\ optimizers' = [optimizers EXCEPT ![Self] =
                                 IF mode = "none" THEN built ELSE setRequestOptimization(built, entry.num, FALSE, NullBlock)]
            /\ optStack' = Append(optStack, PerformFrame(entry.num, mode, live, buildCost(builds.alias, builds.useDefs, builds.valueNumbers)))
            /\ optStep' = [Step("invoke", entry) EXCEPT !.doThisOptimization = TRUE, !.instantiated = TRUE, !.mode = mode,
                                                         !.blocks = live, !.optIndex = optIndex, !.lastRunBefore = lastRunBefore, !.builds = builds, !.before = Caches(marked)]
            /\ UNCHANGED optResult

\* the part of performOptimization for a real optimization, after
\* comp()->incOptIndex()
visitPrimitive(entry, guard, manager, marked, optIndex) ==
    \E caps \in {Capabilities(entry.num)} :
       IF ~doThisOptimization(guard, manager)
       THEN returnEarly(entry, marked, optIndex, "guard", FALSE, manager.lastRun)
       ELSE IF ~indexGate(guard.mustBeDone, optIndex)
       THEN returnEarly(entry, marked, optIndex, "range", FALSE, manager.lastRun)
       ELSE IF ~isEnabled(marked, entry.num)
       THEN returnEarly(entry, marked, optIndex, "disabled", FALSE, manager.lastRun)
       ELSE \E shouldPerform \in BOOLEAN :
            IF ~shouldPerform
            THEN returnEarly(entry, marked, optIndex, "shouldPerform", TRUE, manager.lastRun)
            ELSE \E alias \in {needsAliasBuild(marked, caps)} :
                 \E o1 \in {invalidateUseDefInfo(buildAliasInfo(marked, caps), caps)} :
                 \E useDefs \in {useDefBuild(o1, caps)} :
                 \E ud \in (IF useDefs = "none" THEN {[valid |-> FALSE, cantBuild |-> FALSE]} ELSE UseDefBuilds) :
                 \E o2 \in {buildUseDefInfo(o1, caps, ud)} :
                 \E valueNumbers \in {valueNumberBuild(o2, caps)} :
                 \E vnValid \in (IF valueNumbers = "none" THEN {FALSE} ELSE BOOLEAN) :
                 \E o3 \in {buildValueNumberInfo(o2, caps, vnValid)} :
                 \E cfg \in (IF RequiresStructure(caps) THEN CfgSizes ELSE {[numBlocks |-> 0, numLoops |-> 0]}) :
                 \E builds \in {[alias |-> alias, useDefs |-> useDefs, useDefsValid |-> ud.valid, valueNumbers |-> valueNumbers,
                                  valueNumbersValid |-> vnValid, numBlocks |-> cfg.numBlocks, numLoops |-> cfg.numLoops]} :
                    IF methodIsTooLarge(caps, cfg.numBlocks, cfg.numLoops)
                    THEN /\ optResult' = "ExcessiveComplexity"
                         /\ optStack' = <<>>
                         /\ optimizers' = [optimizers EXCEPT ![Self] = o3]
                         /\ optStep' = [Step("failCompilation", entry) EXCEPT !.optIndex = optIndex, !.instantiated = TRUE, !.builds = builds]
                    ELSE invokePass(entry, guard, marked, o3, optIndex, builds, manager.lastRun)

performOptimization ==
    /\ UNCHANGED dispatcherVars
    /\ optResult = "running"
    /\ optStack # <<>>
    /\ TopFrame.kind \in {"optimize", "group"}
    /\ TopFrame.kind = "optimize" => TopFrame.pc = "call"
    /\ ~AtEnd(TopFrame)
    /\ \E entry \in {BodyOf(TopFrame)[TopFrame.pos]} :
       \E manager \in {optimizers[Self].opts[entry.num]} :
       \E guard \in {evaluateGuard(entry.options, manager.requested, compilation.mayHaveLoops)} :
       \E marked \in {[optimizers[Self] EXCEPT !.opts[entry.num].lastRun = @ \/ guard.justSetLastRun]} :
          IF IsGroup(entry.num) /\ doThisOptimization(guard, manager)
          THEN enterGroup(entry, marked)
          ELSE /\ compilation' = [compilation EXCEPT !.optIndex = IF isOutermostMethod THEN @ + 1 ELSE @]
               /\ visitPrimitive(entry, guard, manager, marked, compilation.optIndex + 1)

\* the body of a group has been walked through: numIters++, and
\* eachLocalAnalysisPassGroup starts over while blocks are pending
blocksArePending_SubPasses(optimizer, optNum) ==
    \E i \in 1..Len(groupOfOpts(optNum)) : optimizer.opts[groupOfOpts(optNum)[i].num].requestedBlocks # {}

blocksArePending(optimizer, optNum) ==
    groupOfOpts(optNum) # <<>> /\ optimizer.opts[optNum].requestedBlocks # {}

\* the body starts over: "if (!blocksArePending || (numIters >=
\* MAX_LOCAL_OPTS_ITERS)) break; else subGroup = origSubGroup", and any
\* other group breaks out of the loop
iterateAgain_OneMore(optNum, pending, numIters) ==
    optNum = "eachLocalAnalysisPassGroup" /\ pending /\ numIters <= MAX_LOCAL_OPTS_ITERS

iterateAgain(optNum, pending, numIters) ==
    optNum = "eachLocalAnalysisPassGroup" /\ pending /\ ~(numIters >= MAX_LOCAL_OPTS_ITERS)

groupEnd ==
    /\ UNCHANGED dispatcherVars
    /\ optResult = "running"
    /\ optStack # <<>>
    /\ TopFrame.kind = "group"
    /\ AtEnd(TopFrame)
    /\ \E numIters \in {TopFrame.numIters + 1} :
       \E again \in {iterateAgain(TopFrame.optNum, blocksArePending(optimizers[Self], TopFrame.optNum), numIters)} :
          /\ optStack' = IF again
                         THEN [optStack EXCEPT ![Len(optStack)].pos = 1, ![Len(optStack)].numIters = numIters]
                         ELSE returnToCaller(optStack)
          /\ optStep' = [NoStep EXCEPT !.op = "groupEnd", !.optNum = TopFrame.optNum, !.optimizer = Self,
                                       !.numIters = numIters, !.again = again]
    /\ UNCHANGED <<optimizers, compilation, optResult>>

\* what a running pass may ask for through setRequestOptimization
Requestable == {"treeSimplification", "eachLocalAnalysisPassGroup", "methodHandleInvokeInliningGroup"}

Requests == { [opt |-> n, value |-> TRUE, block |-> b] : n \in Requestable, b \in {NullBlock, "b1"} }

NoRequest == [opt |-> "none", value |-> FALSE, block |-> NullBlock]

\* the optimizations a strategy names, in its entries and in the bodies of
\* the groups it names; a request for any other one is never looked at
Names(body) == {body[i].num : i \in 1..Len(body)}

NamedIn(strategy) ==
    LET inGroups(names) == names \cup UNION {Names(groupOfOpts(g)) : g \in names \cap GroupOpts}
    IN  inGroups(inGroups(Names(strategy)))

RequestsOf(optimizer) == {request \in Requests : request.opt \in NamedIn(optimizer.strategy)} \cup {NoRequest}

\* the effects of the pass on the optimizer that runs it: its request, and
\* getSymReferencesTable() when it reads the table
passEffects(optimizer, request, readsTable) ==
    LET o1 == IF request.opt = "none" THEN optimizer ELSE setRequestOptimization(optimizer, request.opt, request.value, request.block)
    IN  IF readsTable THEN setSymReferencesTable(o1, [built |-> TRUE]) ELSE o1

\* the pass returns; "delete opt", the poll for an interruption, and the
\* caches are brought in line with what the pass did
afterPass_NoPoll(interrupted) == FALSE

afterPass(interrupted) == interrupted

passReturn ==
    /\ UNCHANGED dispatcherVars
    /\ optResult = "running"
    /\ optStack # <<>>
    /\ TopFrame.kind = "perform"
    /\ \E f \in {TopFrame} :
       \E invoked \in {f.mode = "perform" \/ (f.mode = "performOnBlock" /\ f.blocks # {})} :
       \E nodes \in (IF invoked THEN {n \in {compilation.nodeCount, compilation.nodeCount + 1} : n <= MaxNodeCount} ELSE {compilation.nodeCount}) :
       \E symRefs \in (IF invoked THEN {n \in {compilation.symRefCount, compilation.symRefCount + 1} : n <= MaxSymRefCount} ELSE {compilation.symRefCount}) :
       \E request \in (IF invoked THEN RequestsOf(optimizers[Self]) ELSE {NoRequest}) :
       \E readsTable \in (IF invoked THEN BOOLEAN ELSE {FALSE}) :
       \E interrupted \in BOOLEAN :
       \E o1 \in {passEffects(optimizers[Self], request, readsTable)} :
          /\ compilation' = [compilation EXCEPT !.nodeCount = nodes, !.symRefCount = symRefs]
          /\ IF afterPass(interrupted)
             THEN /\ optResult' = "CompilationInterrupted"
                  /\ optStack' = <<>>
                  /\ optimizers' = [optimizers EXCEPT ![Self] = o1]
                  /\ optStep' = [NoStep EXCEPT !.op = "failCompilation", !.optNum = f.optNum, !.optimizer = Self, !.interrupted = TRUE]
             ELSE /\ optimizers' = [optimizers EXCEPT ![Self] =
                                       reconcileCaches(o1, Capabilities(f.optNum), f.origNodeCount, nodes, f.origSymRefCount, symRefs)]
                  /\ optStack' = returnToCaller(optStack)
                  /\ optStep' = [NoStep EXCEPT !.op = "passReturn", !.optNum = f.optNum, !.optimizer = Self, !.mode = f.mode,
                                               !.blocks = f.blocks, !.interrupted = interrupted,
                                               !.nodesAdded = (nodes > f.origNodeCount), !.symRefsChanged = (symRefs # f.origSymRefCount),
                                               !.cost = f.actualCost + (IF invoked THEN 1 ELSE 0), !.before = Caches(o1)]
                  /\ UNCHANGED optResult

\* ---- the runs of the optimizer that are explored

FullRange == [first |-> 0, last |-> MaxOptIndex]

Request(opt, block) == [opt |-> opt, value |-> TRUE, block |-> block]

\* one run: the strategy handed to the optimizer (it ends with endOpts), what
\* was requested through setRequestOptimization before optimize(), whether
\* the method may have loops, the options firstOptIndex and lastOptIndex, the
\* disabled optimizations, and the optimizer the compilation holds at entry
Run(strategy, request, mayHaveLoops, range, disabled, current) ==
    [strategy |-> strategy, request |-> request, mayHaveLoops |-> mayHaveLoops, range |-> range, disabled |-> disabled, current |-> current]

Runs ==
    { Run(<<>>, NoRequest, FALSE, FullRange, {}, 0),
      Run(<<Entry("inductionVariableAnalysis", "Always")>>, NoRequest, TRUE, FullRange, {}, 1),
      Run(<<Entry("treeSimplification", "Always")>>, NoRequest, FALSE, FullRange, {}, 1),
      Run(<<Entry("treeSimplification", "MarkLastRun"), Entry("treeSimplification", "Always")>>, NoRequest, FALSE, FullRange, {}, 1),
      Run(<<Entry("treeSimplification", "IfEnabledMarkLastRun"), Entry("treeSimplification", "IfLoopsMarkLastRun")>>, Request("treeSimplification", "b1"), TRUE, FullRange, {}, 1),
      Run(<<Entry("inductionVariableAnalysis", "IfLoops"), Entry("deadTreesElimination", "MustBeDone")>>, Request("inductionVariableAnalysis", "b1"), FALSE, [first |-> 5, last |-> 5], {}, 0),
      Run(<<Entry("inductionVariableAnalysis", "IfLoops"), Entry("deadTreesElimination", "Always")>>, NoRequest, TRUE, [first |-> 2, last |-> 2], {}, 1),
      Run(<<Entry("globalValuePropagation", "Always"), Entry("globalCopyPropagation", "Always"), Entry("globalValuePropagation", "IfLoops")>>, NoRequest, TRUE, FullRange, {}, 1),
      Run(<<Entry("globalCopyPropagation", "IfNoLoops"), Entry("localCSE", "Always"), Entry("globalValuePropagation", "IfLoops")>>, NoRequest, FALSE, FullRange, {"globalValuePropagation"}, 1),
      Run(<<Entry("globalCopyPropagation", "IfNoLoops"), Entry("localCSE", "Always"), Entry("globalValuePropagation", "IfLoops")>>, NoRequest, TRUE, FullRange, {"localCSE"}, 1),
      Run(<<Entry("treeSimplification", "Always"), Entry("eachLocalAnalysisPassGroup", "IfEnabled")>>, Request("eachLocalAnalysisPassGroup", NullBlock), FALSE, FullRange, {}, 1),
      Run(<<Entry("localCSE", "IfEnabled"), Entry("eachLocalAnalysisPassGroup", "Always")>>, Request("localCSE", NullBlock), FALSE, FullRange, {}, 1),
      Run(<<Entry("localValuePropagationGroup", "Always"), Entry("treeSimplification", "IfEnabledAndLoops")>>, Request("treeSimplification", "b1"), TRUE, FullRange, {}, 1),
      Run(<<Entry("localValuePropagationGroup", "IfNoLoopsOREnabledAndLoops"), Entry("localCSE", "IfEnabledAndNoLoops")>>, Request("localCSE", "b1"), FALSE, FullRange, {}, 1),
      Run(<<Entry("globalValuePropagation", "Always"), Entry("treeSimplification", "Always")>>, NoRequest, FALSE, FullRange, {}, 1),
      Run(<<Entry("globalCopyPropagation", "Always"), Entry("treeSimplification", "Always")>>, NoRequest, FALSE, FullRange, {}, 1) }

\* the hotness of the method is veryHot or above, the compilation is for an
\* opt server, and TR_ProcessHugeMethods: all combinations for the run of
\* the one pass that only requires structure, none of them set otherwise
SizeOptions(run) ==
    IF run.strategy = <<Entry("inductionVariableAnalysis", "Always")>>
    THEN [veryHot : BOOLEAN, isOptServer : BOOLEAN, processHugeMethods : BOOLEAN]
    ELSE {[veryHot |-> FALSE, isOptServer |-> FALSE, processHugeMethods |-> FALSE]}

\* the state before optimize() is called for one of the runs
InitRuns(runs) ==
    /\ InitSignals
    /\ J9ZOS390 = FALSE
    /\ signalTools = SignalTools(FALSE)
    /\ \E run \in runs : \E size \in SizeOptions(run) :
          /\ optimizers = << passEffects(NewOptimizer(FALSE, run.strategy), run.request, FALSE) >>
          /\ compilation = [ optimizer |-> run.current, optIndex |-> 0, nodeCount |-> 0, symRefCount |-> 0,
                             mayHaveLoops |-> run.mayHaveLoops, firstOptIndex |-> run.range.first, lastOptIndex |-> run.range.last,
                             disabledOpts |-> run.disabled, veryHot |-> size.veryHot, isOptServer |-> size.isOptServer,
                             processHugeMethods |-> size.processHugeMethods ]
    /\ optStack = <<>>
    /\ optResult = "idle"
    /\ optStep = NoStep

InitOptimizer == InitRuns(Runs)

NextOptimizer ==
    \/ optimize
    \/ performOptimization
    \/ passReturn
    \/ genIL
    \/ groupEnd
    \/ optimizeLoop
    \/ optimizeEnd

SpecOptimizer == InitOptimizer /\ [][NextOptimizer]_vars

\* the runs in which groups start over: a group that lists itself, entered
\* with and without a request for it, and the group of the local passes that
\* is bounded by MAX_LOCAL_OPTS_ITERS; some passes are disabled by option in
\* each of them
RepeatingRuns ==
    { Run(<<Entry("methodHandleInvokeInliningGroup", "Always")>>, NoRequest, FALSE, FullRange, {"localCSE", "localValuePropagation", "deadTreesElimination"}, 1),
      Run(<<Entry("treeSimplification", "Always"), Entry("methodHandleInvokeInliningGroup", "IfEnabled")>>, Request("methodHandleInvokeInliningGroup", NullBlock), FALSE, FullRange, {"treeSimplification", "localCSE", "localValuePropagation"}, 1),
      Run(<<Entry("eachLocalAnalysisPassGroup", "Always")>>, Request("treeSimplification", "b1"), FALSE, FullRange, {"localCSE", "deadTreesElimination"}, 1) }

InitRepeating == InitRuns(RepeatingRuns)

\* optimize() runs on one thread, which takes its next step as long as it
\* has one; a pass that is running returns in the end, however many methods
\* it generates the IL of before it does
SpecOptimizerFair ==
    /\ InitRepeating
    /\ [][NextOptimizer]_vars
    /\ WF_vars(NextOptimizer)
    /\ \A k \in 1..MaxOptimizers : SF_vars(passReturn /\ Self = k)

\* ======================================================================
\* Properties of the optimizer orchestrator
\* ======================================================================

\* the step just taken called perform, or performOnBlock on at least one block
PassInvoked ==
    /\ optStep.op = "invoke"
    /\ optStep.mode = "perform" \/ (optStep.mode = "performOnBlock" /\ optStep.blocks # {})

\* C21: no pass runs after its last-run flag is set: an entry never calls
\* perform or performOnBlock on a pass whose last-run flag an earlier entry
\* of the strategy had set
C21_NoRunAfterLastRun == PassInvoked => ~optStep.lastRunBefore

\* the use-def info the pass of the step just taken declares it requires is
\* in the cache, with global use-defs when the pass requires them
UseDefInfoAtEntry ==
    /\ optimizers[optStep.optimizer].useDefInfo.built
    /\ "requiresGlobalsUseDefInfo" \in Capabilities(optStep.optNum) => optimizers[optStep.optimizer].useDefInfo.hasGlobalsUseDefs

\* the use-def info could not be built for the step just taken: the build
\* reported invalid info, or the flavour the pass requires is marked as
\* impossible to build
UseDefInfoNotBuildable ==
    \/ optStep.builds.useDefs # "none" /\ ~optStep.builds.useDefsValid
    \/ /\ RequiresGlobalsUseDefs(Capabilities(optStep.optNum))
       /\ optimizers[optStep.optimizer].cantBuildGlobalsUseDefInfo
    \/ /\ ~RequiresGlobalsUseDefs(Capabilities(optStep.optNum))
       /\ optimizers[optStep.optimizer].cantBuildLocalsUseDefInfo

C22_WitnessInvalid ==
    /\ PassInvoked
    /\ RequiresUseDefInfo(Capabilities(optStep.optNum))
    /\ ~optimizers[optStep.optimizer].useDefInfo.built
    /\ optStep.builds.useDefs # "none"

C22_WitnessImpossible ==
    /\ PassInvoked
    /\ RequiresUseDefInfo(Capabilities(optStep.optNum))
    /\ optStep.builds.useDefs = "none"
    /\ UseDefInfoNotBuildable

\* the step just taken is the return of performOptimization after a pass
\* that was called through perform or performOnBlock
PassReturned ==
    /\ optStep.op = "passReturn"
    /\ optStep.mode = "perform" \/ (optStep.mode = "performOnBlock" /\ optStep.blocks # {})

\* C23: when performOptimization returns after a pass during which the node
\* count increased, the value-number cache is empty, and the use-def cache
\* is empty unless the pass declares maintains-use-defs, whether the pass was
\* called through perform or through performOnBlock
C23_NodeGrowthInvalidates ==
    PassReturned /\ optStep.nodesAdded =>
        /\ ~optimizers[optStep.optimizer].valueNumberInfo.built
        /\ "maintainsUseDefInfo" \notin Capabilities(optStep.optNum) => ~optimizers[optStep.optimizer].useDefInfo.built

\* a pass called through performOnBlock has added nodes while both caches
\* held info, and both are empty at the return
C23_Witness ==
    /\ PassReturned
    /\ optStep.mode = "performOnBlock"
    /\ optStep.nodesAdded
    /\ optStep.before.valueNumberInfo
    /\ optStep.before.useDefInfo
    /\ ~optimizers[optStep.optimizer].valueNumberInfo.built
    /\ ~optimizers[optStep.optimizer].useDefInfo.built

\* a pass that declares maintains-use-defs has added nodes through perform:
\* the value numbers are dropped and the use-def info is kept
C23_WitnessMaintains ==
    /\ PassReturned
    /\ optStep.mode = "perform"
    /\ optStep.nodesAdded
    /\ optStep.before.valueNumberInfo
    /\ "maintainsUseDefInfo" \in Capabilities(optStep.optNum)
    /\ optimizers[optStep.optimizer].useDefInfo.built

\* the symref table and the alias sets are gone when performOptimization
\* returns after a pass that has changed the symref count
SymRefChangeInvalidates ==
    PassReturned /\ optStep.symRefsChanged =>
        /\ ~optimizers[optStep.optimizer].symReferencesTable.built
        /\ ~optimizers[optStep.optimizer].aliasSetsAreValid

\* a pass that requires alias sets is called with valid alias sets, which
\* this call has rebuilt when they were invalid
AliasSetsRebuilt ==
    PassInvoked /\ "doesNotRequireAliasSets" \notin Capabilities(optStep.optNum) =>
        /\ optimizers[optStep.optimizer].aliasSetsAreValid
        /\ optStep.builds.alias = ~optStep.before.aliasSetsAreValid

\* a step that empties the symref table of an optimizer is the return of a
\* pass of that optimizer during which the symref count has changed
TableDroppedOnlyOnChange ==
    \A o \in DOMAIN optimizers \cap DOMAIN optimizers' :
        optimizers[o].symReferencesTable.built /\ ~optimizers'[o].symReferencesTable.built =>
            /\ optStep'.op = "passReturn"
            /\ optStep'.optimizer = o
            /\ optStep'.symRefsChanged

\* C24: a pass that changes the symref count leaves the symref table dropped
\* and the alias sets invalid when performOptimization returns, the next
\* pass that requires alias sets has them rebuilt before it runs, and the
\* symref table is dropped by nothing but a change of the symref count
C24_SymRefChange ==
    /\ [](SymRefChangeInvalidates /\ AliasSetsRebuilt)
    /\ [][TableDroppedOnlyOnChange]_vars

\* the second pass of a strategy finds the alias sets, which the first pass
\* had, invalid after a change of the symref count, and rebuilds them
C24_Witness ==
    /\ PassInvoked
    /\ optStep.optimizer = 1
    /\ optStep.optNum = "treeSimplification"
    /\ optStep.optIndex = 2
    /\ compilation.symRefCount > 0
    /\ ~optStep.before.aliasSetsAreValid
    /\ ~optStep.before.symReferencesTable
    /\ optStep.builds.alias
    /\ optimizers[1].aliasSetsAreValid

\* the number of times the body of the group has been executed when the
\* loop over the body is left or started over
BodyExecutions ==
    optStep.op = "groupEnd" =>
        /\ optStep.numIters >= 1
        /\ optStep.numIters <= MAX_LOCAL_OPTS_ITERS
        /\ optStep.optNum # "eachLocalAnalysisPassGroup" => optStep.numIters = 1 /\ ~optStep.again
        /\ optStep.again => optStep.numIters < MAX_LOCAL_OPTS_ITERS

\* the guard of a group is evaluated when the entry is visited, which opens
\* the loop over its body; starting the body over goes back to the first
\* entry of the body and evaluates no guard of the group again
GuardOncePerEntry ==
    /\ optStep'.op = "enterGroup" =>
          /\ Len(optStack') = Len(optStack) + 1
          /\ optStack'[Len(optStack')] = GroupFrame(optStep'.optNum)
    /\ optStep'.op = "groupEnd" /\ optStep'.again =>
          /\ Len(optStack') = Len(optStack)
          /\ optStack'[Len(optStack')] = [optStack[Len(optStack)] EXCEPT !.pos = 1, !.numIters = @ + 1]
          /\ UNCHANGED optimizers
    /\ optStep'.op = "groupEnd" /\ ~optStep'.again => Len(optStack') = Len(optStack) - 1

\* C25: per entry of a group its guard is evaluated once; the body of a
\* group other than eachLocalAnalysisPassGroup is executed exactly once, the
\* body of eachLocalAnalysisPassGroup at least once and at most 5 times,
\* whatever the passes request while it runs
C25_GroupIterations == [](BodyExecutions) /\ [][GuardOncePerEntry]_vars

\* eachLocalAnalysisPassGroup leaves its loop after the fifth execution of
\* its body although blocks are still pending
C25_Witness ==
    /\ optStep.op = "groupEnd"
    /\ optStep.optNum = "eachLocalAnalysisPassGroup"
    /\ optStep.numIters = MAX_LOCAL_OPTS_ITERS
    /\ ~optStep.again
    /\ blocksArePending(optimizers[optStep.optimizer], optStep.optNum)

\* C26: eachLocalAnalysisPassGroup starts its body over after an iteration
\* if and only if some sub-pass of the body still has requested blocks and
\* fewer than 5 iterations have run
C26_RerunIffSubPassPending ==
    optStep.op = "groupEnd" /\ optStep.optNum = "eachLocalAnalysisPassGroup" =>
        (optStep.again <=> (blocksArePending_SubPasses(optimizers[optStep.optimizer], optStep.optNum) /\ optStep.numIters < MAX_LOCAL_OPTS_ITERS))

\* while optimize() runs, the optimizer whose optimize() is the innermost
\* active one is the current optimizer of the compilation
SelfIsCurrent == optResult = "running" => compilation.optimizer = Self

\* optimize() has returned normally: the optimizer that was current when it
\* was entered is the current one again
EntryOptimizerRestored == optStep.op = "optimizeReturn" => compilation.optimizer = optStep.stackedOptimizer

\* an optimizer whose strategy holds only endOpts invokes no pass and none
\* of its caches changes
EndOptsOnlyIsNoOp ==
    \A o \in DOMAIN optimizers \cap DOMAIN optimizers' :
        optimizers[o].strategy = <<>> =>
            /\ Caches(optimizers'[o]) = Caches(optimizers[o])
            /\ optimizers'[o].opts = optimizers[o].opts
            /\ optStep'.optimizer = o => optStep'.op \in {"optimize", "optimizeReturn", "failCompilation"}

\* C27: optimize() makes itself the current optimizer of the compilation
\* for the duration of its run and on normal return has restored the
\* optimizer that was current at entry, for any nesting of optimizers; with
\* a strategy of endOpts only it invokes no pass and changes no cache
C27_OptimizerRestored ==
    /\ [](SelfIsCurrent /\ EntryOptimizerRestored)
    /\ [][EndOptsOnlyIsNoOp]_vars

\* the optimize() of an optimizer created while a pass of another optimizer
\* was running has returned, and the outer optimizer is current again
C27_Witness ==
    /\ optStep.op = "optimizeReturn"
    /\ optStep.optimizer = 2
    /\ optStep.stackedOptimizer = 1
    /\ compilation.optimizer = 1
    /\ optResult = "running"

\* the optimize() of the outermost optimizer has returned to a compilation
\* that had another optimizer (or none) when it was entered
C27_WitnessOuter ==
    /\ optStep.op = "optimizeReturn"
    /\ optStep.optimizer = 1
    /\ optStep.stackedOptimizer = 0
    /\ compilation.optimizer = 0
    /\ optResult = "returned"

\* performOptimization is about to be called for an entry whose guard
\* evaluates false
GuardIsFalse ==
    /\ optResult = "running"
    /\ optStack # <<>>
    /\ TopFrame.kind \in {"optimize", "group"}
    /\ TopFrame.kind = "optimize" => TopFrame.pc = "call"
    /\ ~AtEnd(TopFrame)
    /\ LET entry == BodyOf(TopFrame)[TopFrame.pos]
           manager == optimizers[Self].opts[entry.num]
       IN  ~doThisOptimization(evaluateGuard(entry.options, manager.requested, compilation.mayHaveLoops), manager)

\* the call returns cost 0 at once: no pass instance, no analysis, and the
\* requested flag and the requested blocks of the pass are as they were
ReturnsUntouched ==
    LET entry == BodyOf(TopFrame)[TopFrame.pos]
    IN  /\ optStep'.op = "return"
        /\ optStep'.reason = "guard"
        /\ optStep'.optNum = entry.num
        /\ optStep'.cost = 0
        /\ ~optStep'.instantiated
        /\ optStep'.builds = NoBuilds
        /\ optStack' = Advance(optStack)
        /\ Len(optimizers') = Len(optimizers)
        /\ Caches(optimizers'[Self]) = Caches(optimizers[Self])
        /\ optimizers'[Self].opts[entry.num].requested = optimizers[Self].opts[entry.num].requested
        /\ optimizers'[Self].opts[entry.num].requestedBlocks = optimizers[Self].opts[entry.num].requestedBlocks

\* C28: when the guard of a strategy entry evaluates false, performOptimization
\* returns cost 0, creates no pass instance, builds no analysis and leaves
\* the requested flag and the requested blocks of the pass unchanged
C28_GuardFalse == [][GuardIsFalse => ReturnsUntouched]_vars

\* inductionVariableAnalysis, requested for block b1, was skipped by its
\* IfLoops guard on a method without loops, and the request is still there
C28_Witness ==
    /\ optStep.op = "return"
    /\ optStep.reason = "guard"
    /\ optStep.optNum = "inductionVariableAnalysis"
    /\ optStep.options = "IfLoops"
    /\ ~compilation.mayHaveLoops
    /\ optimizers[1].opts["inductionVariableAnalysis"].requested
    /\ optimizers[1].opts["inductionVariableAnalysis"].requestedBlocks = {"b1"}

\* the step just taken is a call of performOptimization that treated its
\* entry as a real optimization: it returned early, called the pass, or
\* failed before the call
VisitedAsPrimitive(step) ==
    \/ step.op \in {"return", "invoke", "assert"}
    \/ step.op = "failCompilation" /\ step.instantiated

OutsideRange(index) == index < compilation.firstOptIndex \/ index > compilation.lastOptIndex

\* a pass whose index is outside [firstOptIndex, lastOptIndex] is neither
\* instantiated nor run and costs 0, unless its entry is MustBeDone
RangeGate ==
    /\ VisitedAsPrimitive(optStep) /\ OutsideRange(optStep.optIndex) /\ optStep.options # "MustBeDone" =>
          /\ optStep.op = "return"
          /\ optStep.reason \in {"guard", "range"}
          /\ ~optStep.instantiated
          /\ optStep.cost = 0
    /\ optStep.op = "return" /\ optStep.reason = "range" =>
          OutsideRange(optStep.optIndex) /\ optStep.options # "MustBeDone"

\* the index that is tested is one more than the index of the compilation
\* before the call
IndexTested == VisitedAsPrimitive(optStep') => optStep'.optIndex = compilation.optIndex + 1

\* C29 as stated: the index advances by one for every primitive entry
\* visited, run or skipped
C29_Original ==
    [][VisitedAsPrimitive(optStep') /\ optStep'.optNum \in PrimitiveOpts => compilation'.optIndex = compilation.optIndex + 1]_vars

\* the index advances by one for every entry visited as a real optimization
\* while the compilation is at its outermost method, and by nothing else
IndexAdvance ==
    compilation'.optIndex = IF VisitedAsPrimitive(optStep') /\ isOutermostMethod THEN compilation.optIndex + 1 ELSE compilation.optIndex

\* C29: a primitive pass whose optimization index lies outside
\* [firstIndex, lastIndex] is neither instantiated nor run and adds cost 0,
\* unless its entry is MustBeDone, which is considered whatever the range;
\* the index advances by one for every primitive entry visited, run or
\* skipped, while the compilation is at its outermost method
C29_IndexGate == [](RangeGate) /\ [][IndexTested /\ IndexAdvance]_vars

\* a pass whose guard holds is skipped because its index is below firstOptIndex
C29_Witness ==
    /\ optStep.op = "return"
    /\ optStep.reason = "range"
    /\ optStep.optNum = "inductionVariableAnalysis"
    /\ optStep.optIndex = 1
    /\ compilation.optIndex = 1
    /\ compilation.firstOptIndex = 2

\* an entry with MustBeDone is run although its index is outside the range
C29_WitnessMustBeDone ==
    /\ PassInvoked
    /\ optStep.options = "MustBeDone"
    /\ OutsideRange(optStep.optIndex)
    /\ compilation.optIndex = 2

\* a pass of an optimizer that runs for another method than the outermost
\* one is visited, and the index of the compilation stays where it was
C29_WitnessInner ==
    /\ PassInvoked
    /\ optStep.optimizer = 2
    /\ optStep.optIndex = compilation.optIndex + 1

\* performOptimization returns normally after a pass only if the poll that
\* follows the pass has found no interruption
PolledAfterPass == optStep.op = "passReturn" => ~optStep.interrupted

\* the compilation has failed with CompilationInterrupted: the failing poll
\* is the last step taken, and every active call of optimize and of
\* performOptimization has been left by the exception
NothingAfterInterruption ==
    optResult = "CompilationInterrupted" =>
        /\ optStep.op = "failCompilation"
        /\ optStep.interrupted
        /\ optStack = <<>>

\* after the failure no pass is invoked and no optimize() returns normally
InterruptionIsFinal ==
    optResult = "CompilationInterrupted" =>
        /\ optResult' = "CompilationInterrupted"
        /\ optStep'.op \notin {"invoke", "optimizeReturn", "passReturn"}

\* C30: the cancellation predicate is polled after every pass and a positive
\* result raises CompilationInterrupted: once the predicate is true at a
\* pass boundary, no later pass of the strategy is invoked and optimize()
\* does not return normally
C30_Interruption ==
    /\ [](PolledAfterPass /\ NothingAfterInterruption)
    /\ [][InterruptionIsFinal]_vars

\* the poll after the first of two passes has failed: the second entry of
\* the strategy is never visited and the optimizer stays current
C30_Witness ==
    /\ optResult = "CompilationInterrupted"
    /\ Len(optimizers) = 1
    /\ Len(optimizers[1].strategy) = 2
    /\ compilation.optIndex = 1
    /\ compilation.optimizer = 1
    /\ optStep.optNum = optimizers[1].strategy[1].num

\* the poll has failed after a pass of an optimizer that was run from a pass
\* of another one: both calls of optimize() are abandoned
C30_WitnessNested ==
    /\ optResult = "CompilationInterrupted"
    /\ Len(optimizers) = 2
    /\ optStep.optimizer = 2
    /\ compilation.optimizer = 2

\* the step just taken has brought a pass that requires structure up to the
\* check of the size of the method
ReachedSizeCheck ==
    /\ optStep.op = "invoke" \/ (optStep.op = "failCompilation" /\ optStep.instantiated)
    /\ RequiresStructure(Capabilities(optStep.optNum))

\* a count exceeds its threshold: the block and loop thresholds are doubled
\* for an opt server, the loop threshold is the very-hot one from veryHot on
ExceedsThreshold(numBlocks, numLoops) ==
    LET factor == IF compilation.isOptServer THEN 2 ELSE 1
        loops == IF compilation.veryHot THEN VERY_HOT_HIGH_LOOP_COUNT ELSE HIGH_LOOP_COUNT
    IN  numBlocks > factor * HIGH_BASIC_BLOCK_COUNT \/ numLoops > factor * loops

\* C31: for a pass that requires structure, performOptimization fails with
\* ExcessiveComplexity, before the pass is invoked, if and only if the block
\* count or the loop count exceeds its threshold and the override for huge
\* methods is not set
C31_ComplexityGate ==
    ReachedSizeCheck =>
        ((optStep.op = "failCompilation" /\ optResult = "ExcessiveComplexity")
            <=> (ExceedsThreshold(optStep.builds.numBlocks, optStep.builds.numLoops) /\ ~compilation.processHugeMethods))

\* the call of performOptimization of the step just taken has replaced the
\* use-def info that was cached by a newly built one
UseDefInfoReplaced ==
    /\ optStep.op = "invoke" \/ (optStep.op = "failCompilation" /\ optStep.instantiated)
    /\ optStep.before.useDefInfo
    /\ optStep.builds.useDefs # "none"
    /\ optStep.builds.useDefsValid
    /\ optimizers[optStep.optimizer].useDefInfo.built

\* the value numbers that are cached were built by this call, after the
\* use-def info
ValueNumbersBuiltByCall == optStep.builds.valueNumbers # "none" /\ optStep.builds.valueNumbersValid

EndOfOptimize == {"returned", "InsufficientlyAggressiveCompilation", "ExcessiveComplexity", "CompilationInterrupted", "TR_ASSERT"}

\* the entry performOptimization is looking at is the group whose body it
\* is in, every group entered so far is that same group, and the group has
\* been requested again since it was entered
RecursesIntoItself ==
    /\ optStack # <<>>
    /\ TopFrame.kind = "group"
    /\ ~AtEnd(TopFrame)
    /\ BodyOf(TopFrame)[TopFrame.pos].num = TopFrame.optNum
    /\ optimizers[Self].opts[TopFrame.optNum].requested
    /\ \A i \in 1..Len(optStack) : optStack[i].kind = "group" => optStack[i].optNum = TopFrame.optNum

\* entering a group uses up the request for it
RequestClearedAtEntry ==
    optStep'.op = "enterGroup" => ~optimizers'[Len(optimizers')].opts[optStep'.optNum].requested

RECURSIVE OfferedFrames(_)
OfferedFrames(c) ==
    IF c = <<>> THEN {}
    ELSE IF Top(c).kind = "fn"
         THEN (IF Top(c).frame = 0 THEN {} ELSE {Top(c).frame}) \cup OfferedFrames(Pop(c))
         ELSE OfferedFrames(SubSeq(c, 1, (CHOOSE n \in DOMAIN c : c[n].kind = "fn" /\ c[n].frame = Top(c).frame) - 1))

\* the frames whose callback the step enters
EnteredCallbacks == {i \in DOMAIN frames : i \in DOMAIN frames' /\ frames'[i].calls # frames[i].calls}

\* the innermost of a set of frames
Innermost(S) == {i \in S : \A k \in S : k <= i}

\* the step is the arrival of a signal, or the return of CONTINUE_SEARCH
\* from a callback: the signal goes to the innermost frame that accepts its
\* category among candidates, and to nobody if there is none
OfferedInOrder(candidates) ==
    lastCall'.op \in {"signal", "continue_search"}
        => EnteredCallbacks = Innermost({i \in candidates : Accepts(i, lastCall'.flags)})

\* a callback has returned CONTINUE_EXECUTION or EXCEPTION_RETURN: the step
\* enters no callback
SearchEnds ==
    (lastCall'.op = "continue_execution" \/ (lastCall'.op = "protect_returned" /\ lastCall'.rc = OMRPORT_SIG_EXCEPTION_OCCURRED))
        => EnteredCallbacks = {}

\* the same order, over the records that the handler stack of the thread
\* holds when the step starts
C34_OrderOnHandlerStack ==
    [][ /\ OfferedInOrder(IF lastCall'.op = "signal" THEN ChainFrom(tlsKey) ELSE ChainFrom(frames[Top(ctl).frame].previous))
        /\ SearchEnds ]_vars

\* C34: the main synchronous handler offers a signal to the frames of the
\* thread from the innermost to the outermost: a frame whose flags do not
\* include the category of the signal is skipped (every kind of SIGFPE
\* matches a frame registered for SIGFPE), after CONTINUE_SEARCH the signal
\* goes to the next matching frame further out, and after
\* CONTINUE_EXECUTION or EXCEPTION_RETURN no callback is invoked for it
C34_DispatchOrder ==
    [][ OfferedInOrder(OfferedFrames(ctl)) /\ SearchEnds ]_vars

\* the records of the handler stack, from the record top outwards
RECURSIVE StackFrom(_, _)
StackFrom(fr, top) == IF top = NULL THEN <<>> ELSE <<top>> \o StackFrom(fr, fr[top].previous)

\* C35: when a synchronous dispatch ends with CONTINUE_EXECUTION, the
\* handler stack of the thread is what it was when the signal arrived: the
\* frame that handled the signal and the frames above it, which were
\* skipped or whose callback returned CONTINUE_SEARCH, are on it in the
\* same order
C35_StackKeptByContinueExecution ==
    [][ lastCall'.op = "continue_execution" => StackFrom(frames', tlsKey') = StackFrom(frames, Top(ctl).entryTop) ]_vars

\* the frame that handled the signal is the top of the handler stack after
\* CONTINUE_EXECUTION, wherever it was when the signal arrived
C35_HandlerOnTop ==
    [][ lastCall'.op = "continue_execution" => tlsKey' = Top(ctl).frame ]_vars

(***************************************************************************)
(* SpecAsyncList: registrations made one after the other, the list being   *)
(* updated under asyncMonitor by one call at a time, with flags that name  *)
(* one signal, no signal, or nothing.                                      *)
(***************************************************************************)
ListFlagInputs == { {}, OMRPORT_SIG_FLAG_SIGTERM, OMRPORT_SIG_FLAG_SIGHUP, OMRPORT_SIG_FLAG_IS_ASYNC }

\* mem_allocate_memory returns a free address, or NULL
ListRecords ==
    IF FreeAddrs(asyncHandlerList) # {} THEN {Min(FreeAddrs(asyncHandlerList)), NULL} ELSE {NULL}

ListSetAsync ==
    \E c \in Clients, f \in ListFlagInputs :
        \E record \in ListRecords :
            omrsig_set_async_signal_handler(c[1], c[2], c[3], f, record, AllOk)

ListSetSingleAsync ==
    \E c \in Clients, f \in ListFlagInputs :
        \E record \in ListRecords :
            omrsig_set_single_async_signal_handler(c[1], c[2], c[3], f, record, AllOk)

NextAsyncList == ListSetAsync \/ ListSetSingleAsync

SpecAsyncList == Init /\ [][NextAsyncList]_vars

\* no two records of the list are of the same (portLibrary, handler, handlerArg)
OneRecordPerTriple ==
    \A i, j \in DOMAIN asyncHandlerList : Who(asyncHandlerList[i]) = Who(asyncHandlerList[j]) => i = j

\* the records of a list whose mask names no signal
Signalless(list) == {list[i].addr : i \in {k \in DOMAIN list : SignalBitsOf(list[k].flags) = {}}}

\* C36 as stated: after any sequence of setAsyncSignalHandler and
\* setSingleAsyncSignalHandler calls the list holds at most one record for
\* each (portLibrary, handler, handlerArg), and the mask of every record
\* names at least one signal, a record left without any signal being removed
C36_Original ==
    OneRecordPerTriple /\ Signalless(asyncHandlerList) = {}

\* the step leaves a record without a signal only by taking its last signal
\* away in a setSingleAsyncSignalHandler call of another handler of the same
\* port library, or by registering flags that name no signal
EmptiedOnlyBySingle ==
    \A a \in Signalless(asyncHandlerList') \ Signalless(asyncHandlerList) :
       \/ /\ lastCall'.op = "set_single_async"
          /\ a \in UsedAddrs(asyncHandlerList)
          /\ RecordAt(asyncHandlerList, a).portLib = lastCall'.who[1]
          /\ Who(RecordAt(asyncHandlerList, a)) # lastCall'.who
          /\ SignalBitsOf(RecordAt(asyncHandlerList, a).flags) = SignalBitsOf(lastCall'.flags)
       \/ /\ lastCall'.op = "set_async"
          /\ SignalBitsOf(lastCall'.flags) = {}
          /\ a \notin UsedAddrs(asyncHandlerList)
          /\ Who(RecordAt(asyncHandlerList', a)) = lastCall'.who

\* C36, amended: the list holds at most one record for each (portLibrary,
\* handler, handlerArg); a record whose mask names no signal is not removed,
\* and there is one only where setSingleAsyncSignalHandler took the last
\* signal of a record away to give it to another handler of the same port
\* library, or where a record was registered with flags that name no signal
C36_ListWellFormed ==
    [](OneRecordPerTriple) /\ [][EmptiedOnlyBySingle]_vars

\* a record has lost its only signal to another handler and is still in
\* the list, next to the record of that handler
C36_Witness ==
    /\ lastCall.op = "set_single_async"
    /\ lastCall.rc = 0
    /\ Len(asyncHandlerList) >= 2
    /\ \E i \in DOMAIN asyncHandlerList :
          /\ SignalBitsOf(asyncHandlerList[i].flags) = {}
          /\ asyncHandlerList[i].portLib = lastCall.who[1]
          /\ Who(asyncHandlerList[i]) # lastCall.who

(***************************************************************************)
(* sig_full_shutdown of the last attached port library, statement by       *)
(* statement, on a thread other than the reporter, while signals are       *)
(* raised and reported:                                                    *)
(*   idle -> removeAsyncHandlers -> post -> wait -> returned               *)
(***************************************************************************)
\* --attachedPortLibraries == 0 and the loop that registers the old actions
sig_full_shutdown_restore(portLibrary) ==
    /\ procState = "running"
    /\ shutdownCaller.pc = "idle"
    /\ sig_shutdown[portLibrary] = "sig_full_shutdown"
    /\ attachedPortLibraries = 1
    /\ attachedPortLibraries' = 0
    /\ SetOSState(restoreOldActions(OSState, UnixSignals))
    /\ shutdownCaller' = [pc |-> "removeAsyncHandlers", portLibrary |-> portLibrary]
    /\ UNCHANGED <<optVars, signalOptionsGlobal, asyncHandlerList, reporterVars, syncVars, signalTools,
                   sig_shutdown, osOriginal, optionsCaller, registrant, lastCall, mark, tally>>

\* removeAsyncHandlers(portLibrary), which waits until no signal is being
\* reported
sig_full_shutdown_remove ==
    /\ procState = "running"
    /\ shutdownCaller.pc = "removeAsyncHandlers"
    /\ asyncThreadCount = 0
    /\ asyncHandlerList' = SelectSeq(asyncHandlerList, LAMBDA r : r.portLib # shutdownCaller.portLibrary)
    /\ shutdownCaller' = [shutdownCaller EXCEPT !.pc = "post"]
    /\ UNCHANGED <<optVars, osVars, signalOptionsGlobal, reporterVars, syncVars, attachedPortLibraries,
                   signalTools, sig_shutdown, osOriginal, optionsCaller, registrant, lastCall, mark, tally>>

\* shutDownASynchReporter = 1 and SIGSEM_POST, or pthread_cond_signal under
\* the mutex, which wakes the reporter only if it is waiting
sig_full_shutdown_post ==
    /\ procState = "running"
    /\ shutdownCaller.pc = "post"
    /\ shutDownASynchReporter' = 1
    /\ IF J9ZOS390
       THEN /\ reporter' = IF reporter.pc = "waiting" THEN [reporter EXCEPT !.pc = "loop"] ELSE reporter
            /\ UNCHANGED wakeUpASyncReporter
       ELSE /\ wakeUpASyncReporter' = wakeUpASyncReporter + 1
            /\ UNCHANGED reporter
    /\ shutdownCaller' = [shutdownCaller EXCEPT !.pc = "wait"]
    /\ UNCHANGED <<optVars, osVars, signalOptionsGlobal, asyncHandlerList, asyncThreadCount, signalCounts,
                   J9ZOS390, raisers, syncVars, attachedPortLibraries, signalTools, sig_shutdown,
                   osOriginal, optionsCaller, registrant, lastCall, mark, tally>>

\* "while (shutDownASynchReporter) omrthread_monitor_wait", then
\* destroySignalTools and the return
sig_full_shutdown_wait ==
    /\ procState = "running"
    /\ shutdownCaller.pc = "wait"
    /\ shutDownASynchReporter = 0
    /\ signalTools' = destroySignalTools(signalTools) \ {"asynchSignalReporterThread"}
    /\ sig_shutdown' = [sig_shutdown EXCEPT ![shutdownCaller.portLibrary] = "omrsig_shutdown"]
    /\ shutdownCaller' = [shutdownCaller EXCEPT !.pc = "returned"]
    /\ lastCall' = [op |-> "shutdown", who |-> <<shutdownCaller.portLibrary>>, flags |-> {}, rc |-> 0, last |-> TRUE]
    /\ mark' = NoMark
    /\ UNCHANGED <<optVars, osVars, signalOptionsGlobal, asyncHandlerList, reporterVars, syncVars,
                   attachedPortLibraries, osOriginal, optionsCaller, registrant, tally>>

\* the end of asynchSignalReporter: shutDownASynchReporter = 0, notify and
\* omrthread_exit
Reporter_exit ==
    /\ procState = "running"
    /\ reporter.pc = "exit"
    /\ shutDownASynchReporter # 0
    /\ shutDownASynchReporter' = 0
    /\ UNCHANGED <<optVars, lifeVars, otherVars, asyncHandlerList, asyncThreadCount, signalCounts,
                   wakeUpASyncReporter, J9ZOS390, reporter, raisers, tally>>

\* a port library that is not the last one shuts down
ShutdownOther ==
    /\ shutdownCaller.pc = "idle"
    /\ attachedPortLibraries > 1
    /\ \E p \in PortLibs : sig_full_shutdown(p)

ShutdownLast == \E p \in PortLibs : sig_full_shutdown_restore(p)

ShutdownStep == sig_full_shutdown_remove \/ sig_full_shutdown_post \/ sig_full_shutdown_wait

\* handlers are registered while the port libraries are attached
RegisterWhileAttached ==
    /\ shutdownCaller.pc = "idle"
    /\ RegisterBeforeDelivery

InitShutdown ==
    /\ InitState
    /\ J9ZOS390 \in BOOLEAN
    /\ signalTools = SignalTools(J9ZOS390)

NextShutdown ==
    \/ RegisterWhileAttached
    \/ RaiseCount
    \/ RaiseWake
    \/ Reporter_loop
    \/ Reporter_sem_wait
    \/ Reporter_scan
    \/ runHandlers_head
    \/ runHandlers_inc
    \/ runHandlers_walk
    \/ runHandlers_dec
    \/ Reporter_sub
    \/ Reporter_cond_wait
    \/ Reporter_exit
    \/ ShutdownOther
    \/ ShutdownLast
    \/ sig_full_shutdown_remove
    \/ sig_full_shutdown_post
    \/ sig_full_shutdown_wait

\* the reporter thread, a started signal handler and the thread that has
\* called shutdown are scheduled fairly; a callback returns (it is one step
\* of the walk); a wait on the condition variable ends only when the
\* condition is signalled
SpecShutdown ==
    /\ InitShutdown
    /\ [][NextShutdown]_vars
    /\ WF_vars(ReporterStep \/ Reporter_exit)
    /\ WF_vars(RaiseWake)
    /\ WF_vars(ShutdownStep)

\* no callback is invoked once shutdown has returned
NoCallbackAfterShutdown ==
    shutdownCaller.pc = "returned" => tally'.invoked = tally.invoked

\* C37: when the last attached port library calls shutdown from a thread
\* other than the reporter and every callback returns, the reporter sees
\* the shutdown flag, exits and signals the shutdown condition, and
\* shutdown returns, whatever signals are pending or being dispatched; no
\* callback is invoked after shutdown has returned
C37_ShutdownLiveness ==
    /\ (shutdownCaller.pc # "idle") ~> (shutdownCaller.pc = "returned" /\ reporter.pc = "exit")
    /\ [][NoCallbackAfterShutdown]_vars

\* the same for the build with the condition variable (J9ZOS390), as long
\* as the reporter does not walk a list that was changed under it
C37_CondvarBuild ==
    (shutdownCaller.pc # "idle" /\ J9ZOS390) ~> (procState = "crashed" \/ (shutdownCaller.pc = "returned" /\ reporter.pc = "exit"))

\* the same for the build with the counting semaphore, as long as the
\* reporter does not walk a list that was changed under it
C37_SemaphoreBuild ==
    /\ (shutdownCaller.pc # "idle" /\ ~J9ZOS390) ~> (procState = "crashed" \/ (shutdownCaller.pc = "returned" /\ reporter.pc = "exit"))
    /\ [][NoCallbackAfterShutdown]_vars

(***************************************************************************)
(* SpecRegistration: the registration calls as the two critical sections  *)
(* they are.  Under registerHandlerMonitor the main handlers are           *)
(* registered; then, under asyncMonitor, the caller waits in               *)
(* "while (asyncThreadCount > 0) omrthread_monitor_wait(asyncMonitor)" and *)
(* updates the list.  The caller is another thread, or a callback that     *)
(* runHandlers is invoking on the reporter thread.                         *)
(***************************************************************************)
RegistrationOps == {"set_async", "set_single_async"}

\* the callback runHandlers is invoking, if there is one
CallbackRunning ==
    /\ reporter.pc = "rh_walk"
    /\ reporter.cursor \in UsedAddrs(asyncHandlerList)
    /\ handlesSignal(RecordAt(asyncHandlerList, reporter.cursor).flags, reporter.asyncSignalFlag)

\* the flag checks and the section under registerHandlerMonitor
registration_enter(thread, op, portLibrary, handler, handler_arg, flags, osr) ==
    \E reg \in {asyncRegisterMain(OSState, signalOptionsGlobal, flags, osr)} :
    LET rejects == IF op = "set_async" THEN checkForAmbiguousSignalFlags(flags)
                   ELSE setSingleRejects(flags)
        who == <<portLibrary, handler, handler_arg>>
    IN
    /\ procState = "running"
    /\ registrant.pc = "idle"
    /\ thread = "reporter" => CallbackRunning
    /\ IF rejects
       THEN /\ lastCall' = [op |-> op, who |-> who, flags |-> flags, rc |-> OMRPORT_SIG_ERROR]
            /\ UNCHANGED <<osVars, registrant, reporter>>
       ELSE IF reg.rc # 0
       THEN /\ SetOSState(reg.os)
            /\ lastCall' = [op |-> op, who |-> who, flags |-> flags, rc |-> reg.rc]
            /\ UNCHANGED <<registrant, reporter>>
       ELSE /\ SetOSState(reg.os)
            /\ registrant' = [pc |-> "wait", thread |-> thread, op |-> op, who |-> who,
                              flags |-> flags]
            /\ reporter' = IF thread = "reporter" THEN [reporter EXCEPT !.pc = "rh_callback"]
                           ELSE reporter
            /\ UNCHANGED lastCall
    /\ UNCHANGED <<optVars, signalOptionsGlobal, asyncHandlerList, asyncThreadCount, signalCounts,
                   wakeUpASyncReporter, shutDownASynchReporter, J9ZOS390, raisers, syncVars,
                   attachedPortLibraries, signalTools, sig_shutdown, osOriginal, optionsCaller,
                   shutdownCaller, mark, tally>>

\* the section under asyncMonitor: the wait for asyncThreadCount to be 0,
\* the update of the list and the return
registration_update(record) ==
    LET who == registrant.who IN
    /\ registrant.pc = "wait"
    /\ \E upd \in {IF registrant.op = "set_async"
                THEN setAsyncList(asyncHandlerList, who[1], who[2], who[3], registrant.flags, record)
                ELSE setSingleAsyncList(asyncHandlerList, who[1], who[2], who[3],
                                        registrant.flags, record)} :
           /\ procState = "running"
           /\ asyncThreadCount = 0
           /\ asyncHandlerList' = upd.list
           /\ lastCall' = [op |-> registrant.op, who |-> who, flags |-> registrant.flags, rc |-> upd.rc]
           /\ mark' = MarkAfter(registrant.op, who, registrant.flags, asyncHandlerList)
           /\ registrant' = NoRegistrant
           /\ reporter' = IF registrant.thread = "reporter" THEN [reporter EXCEPT !.pc = "rh_walk"]
                          ELSE reporter
           /\ UNCHANGED <<optVars, osVars, signalOptionsGlobal, asyncThreadCount, signalCounts,
                          wakeUpASyncReporter, shutDownASynchReporter, J9ZOS390, raisers, syncVars,
                          attachedPortLibraries, signalTools, sig_shutdown, osOriginal, optionsCaller,
                          shutdownCaller, tally>>

RegistrationFlagInputs == {OMRPORT_SIG_FLAG_SIGTERM, {}}

RegistrationClients == {<<"p1", "h1", "a1">>}

RegistrationFromThread ==
    \E c \in RegistrationClients : \E f \in RegistrationFlagInputs : \E op \in RegistrationOps :
        registration_enter("other", op, c[1], c[2], c[3], f, AllOk)

RegistrationFromCallback ==
    \E c \in RegistrationClients : \E f \in RegistrationFlagInputs : \E op \in RegistrationOps :
        registration_enter("reporter", op, c[1], c[2], c[3], f, AllOk)

RegistrationUpdate ==
    /\ registrant.pc = "wait"
    /\ \E record \in FirstFit(asyncHandlerList, registrant.who, registrant.flags) :
        registration_update(record)

NextRegistration ==
    \/ RegistrationFromThread
    \/ RegistrationFromCallback
    \/ RegistrationUpdate
    \/ RaiseCount
    \/ RaiseWake
    \/ Reporter_loop
    \/ Reporter_sem_wait
    \/ Reporter_scan
    \/ runHandlers_head
    \/ runHandlers_inc
    \/ runHandlers_walk
    \/ runHandlers_dec
    \/ Reporter_sub

\* every callback returns, the reporter and a waiting caller are scheduled
SpecRegistration ==
    /\ Init
    /\ [][NextRegistration]_vars
    /\ WF_vars(ReporterStep)
    /\ WF_vars(RaiseWake)
    /\ WF_vars(RegistrationUpdate)

\* the positions of the reporter at which a dispatch is in progress
DispatchInProgress == reporter.pc \in {"rh_walk", "rh_callback", "rh_dec"}

\* C38: every registration call that has started to wait returns while the
\* process lives, also one made by a callback running on the reporter
\* thread, and the in-flight dispatch counter is zero whenever no dispatch
\* is in progress.
C38_NoRegistrationDeadlock ==
    /\ (registrant.pc = "wait") ~> (registrant.pc = "idle" \/ procState = "crashed")
    /\ [](~DispatchInProgress => asyncThreadCount = 0)

\* the counter is zero whenever no dispatch is in progress
C38_CounterZeroWhenIdle == ~DispatchInProgress => asyncThreadCount = 0

\* a call made from another thread returns unless the process has crashed
C38_OtherThreadReturns ==
    (registrant.pc = "wait" /\ registrant.thread = "other")
        ~> (registrant.pc = "idle" \/ procState = "crashed")

\* a call made by a callback on the reporter thread waits for ever
C38_CallbackWaitsForItself ==
    [][(registrant.pc = "wait" /\ registrant.thread = "reporter") => registrant' = registrant]_vars

\* a callback on the reporter thread is inside a registration call
C38_CallbackRegisters ==
    /\ registrant.pc = "wait"
    /\ registrant.thread = "reporter"
    /\ reporter.pc = "rh_callback"
    /\ asyncThreadCount > 0

(***************************************************************************)
(* Further properties of the use-def cache                                 *)
(***************************************************************************)
\* the pass declares neither a use-def nor a value-numbering requirement
NoAnalysisRequirement(optNum) ==
    /\ ~RequiresUseDefInfo(Capabilities(optNum))
    /\ ~RequiresValueNumbering(Capabilities(optNum))

\* the step just taken is the call of performOptimization for an entry up to
\* the pass, or the return of a pass that has added no nodes
EntryWithoutNewNodes ==
    /\ optStep'.op \in {"invoke", "passReturn"}
    /\ ~optStep'.nodesAdded

\* the optimizer of the step caches the use-def info it cached before the
\* step (nothing is built for a pass without a requirement, so that an equal
\* info is the same instance)
UseDefInfoKept ==
    optimizers'[optStep'.optimizer].useDefInfo = optimizers[optStep'.optimizer].useDefInfo

\* the cached use-def info is of the kind the pass declares: its loads are
\* defs exactly when the pass does not declare that it does not require
\* them, and the pass does not strongly prefer global value numbering while
\* the info is local and global info can be built
KindAgrees(optimizer, caps) ==
    /\ ("doesNotRequireLoadsAsDefsInUseDefs" \in caps) <=> ~optimizer.useDefInfo.hasLoadsAsDefs
    /\ ~ /\ "stronglyPrefersGlobalsValueNumbering" \in caps
         /\ ~optimizer.useDefInfo.hasGlobalsUseDefs
         /\ ~optimizer.cantBuildGlobalsUseDefInfo

C39_Dropped ==
    /\ PassInvoked
    /\ optStep.optNum = "treeSimplification"
    /\ optStep.before.useDefInfo
    /\ ~optimizers[optStep.optimizer].useDefInfo.built

(***************************************************************************)
(* Further properties of the handlers registered with the OS               *)
(***************************************************************************)
\* the signal bit of the row of signalMap for a unix signal
SignalBitOf(unixSignalNo) ==
    SignalBitsOf(signalMap[CHOOSE i \in DOMAIN signalMap : signalMap[i].unixSignalNo = unixSignalNo].portLibSignalNo)

\* a signal whose disposition is the user's handler is recorded as having a
\* handler and no main handler
UserHandlerRecorded ==
    \A s \in UnixSignals :
        osAction[s] = "userHandler" =>
            /\ SignalBitOf(s) \subseteq (syncSignalsWithHandlers \cup asyncSignalsWithHandlers)
            /\ SignalBitOf(s) \cap (syncSignalsWithMainHandlers \cup asyncSignalsWithMainHandlers) = {}

\* the step has replaced the user's handler as the disposition of s
UserHandlerReplaced(s) == osAction[s] = "userHandler" /\ osAction'[s] # "userHandler"

\* the call that has just returned is the shutdown of the last port library
LastShutdown == lastCall'.op = "shutdown" /\ lastCall'.last

\* the call that has just returned is a protect or an async registration
\* whose flags cover s, and the main handler is the disposition of s
MainHandlerInstalledFor(s) ==
    /\ lastCall'.op \in {"protect_fn", "protect_rejected", "set_async", "set_single_async"}
    /\ SignalBitOf(s) \subseteq lastCall'.flags
    /\ IsMainHandler(osAction'[s])

\* C40 as stated: the user's handler is recorded as a handler that is not a
\* main handler and stays the disposition until shutdown (another
\* registerOSHandler call installs a user's handler again).
C40_Original ==
    /\ [](UserHandlerRecorded)
    /\ [][\A s \in UnixSignals : UserHandlerReplaced(s) => LastShutdown]_vars

\* C40: the user's handler is recorded as a handler that is not a main
\* handler and stays the disposition until shutdown or until a protect or an
\* async registration whose flags cover the signal installs the main handler
\* in its place.
C40_UserHandlerUntilMainHandler ==
    /\ [](UserHandlerRecorded)
    /\ [][\A s \in UnixSignals :
            UserHandlerReplaced(s) => (LastShutdown \/ MainHandlerInstalledFor(s))]_vars

\* registerOSHandler has put the user's handler in the place of the main
\* synchronous handler of SIGSEGV
C40_Witness ==
    /\ lastCall.op = "register_os_handler"
    /\ lastCall.rc = 0
    /\ lastCall.old = "mainSynchSignalHandler"
    /\ osAction[SIGSEGV] = "userHandler"
    /\ "SEGV" \in syncSignalsWithHandlers
    /\ "SEGV" \notin syncSignalsWithMainHandlers
====
